---- MODULE Spec2Model ----
(***************************************************************************)
(* A model of the websockets client: the frame codec (frame.rs), the split *)
(* read and write halves with their event channel (split.rs) and the       *)
(* unsplit WebSocket (mod.rs).                                             *)
(*                                                                         *)
(* A String is represented by the sequence of its UTF-8 bytes, a Vec<u8>   *)
(* by the sequence of its bytes and an Option<T> by a sequence of length   *)
(* 0 (None) or 1 (Some).                                                   *)
(***************************************************************************)
EXTENDS Integers, Sequences, FiniteSets, TLC

VARIABLES
    shutdown,         \* WebSocketWriteHalf.shutdown / WebSocket.shutdown
    sent_closed,      \* WebSocketWriteHalf.sent_closed
    wshut,            \* the stream has been half-closed for writes
    wire,             \* frames written to the stream, oldest first
    raw,              \* the bytes written to the stream, one entry per frame of wire
    rng,              \* state of the write half's ChaCha20Rng (position in its key stream)
    events,           \* the mpsc channel from the read half to the write half
    last_frame_type,  \* WebSocketReadHalf.last_frame_type / WebSocket.last_frame_type
    wpc,              \* position of the write half's task: "idle", "flush", or
                      \* "dropped" once the write half (and its Receiver) is dropped
    wcall,            \* the write-half call in progress
    wret,             \* what the last completed send/flush/close/shutdown returned
    rret,             \* what the last completed receive returned
    pings,            \* history: the payloads of the Pings receive() has returned
    closes,           \* history: the Close frames receive() has returned
    ncalls,           \* history: number of send/flush/close/shutdown calls made
    nrecv,            \* history: number of receive calls made
    input,            \* the input of the codec or handshake function applied
    output            \* what that function returned

vars == <<shutdown, sent_closed, wshut, wire, raw, rng, events, last_frame_type,
          wpc, wcall, wret, rret, pings, closes, ncalls, nrecv, input, output>>

(***************************************************************************)
(* Bounds of the model.                                                    *)
(***************************************************************************)
MaxCalls == 2
MaxRecv == 2
MaxPayload == 3
LenWindow == 4

(***************************************************************************)
(* frame.rs:401: a control frame's payload is at most 125 bytes.           *)
(***************************************************************************)
ControlMax == 125

None == <<>>
Some(x) == <<x>>
IsSome(o) == Len(o) = 1
Unwrap(o) == o[1]

(***************************************************************************)
(* enum Frame (frame.rs:57-91).                                            *)
(***************************************************************************)
Text(p, c, f) == [type |-> "Text", payload |-> p, continuation |-> c, fin |-> f]
Binary(p, c, f) == [type |-> "Binary", payload |-> p, continuation |-> c, fin |-> f]
Close(p) == [type |-> "Close", payload |-> p]
Ping(p) == [type |-> "Ping", payload |-> p]
Pong(p) == [type |-> "Pong", payload |-> p]

Zeros(n) == [i \in 1..n |-> 0]

(***************************************************************************)
(* Frame::is_control, Frame::opcode, Frame::fin.                           *)
(***************************************************************************)
is_control(frame) == frame.type \in {"Close", "Ping", "Pong"}

\* a variant of opcode in which a continuation frame keeps the opcode of its
\* data type
opcode_ContinuationKeepsType(frame) ==
    CASE frame.type = "Text" -> 1
      [] frame.type = "Binary" -> 2
      [] frame.type = "Close" -> 8
      [] frame.type = "Ping" -> 9
      [] frame.type = "Pong" -> 10

opcode(frame) ==
    CASE frame.type = "Text" -> IF frame.continuation THEN 0 ELSE 1
      [] frame.type = "Binary" -> IF frame.continuation THEN 0 ELSE 2
      [] frame.type = "Close" -> 8
      [] frame.type = "Ping" -> 9
      [] frame.type = "Pong" -> 10

fin(frame) ==
    IF frame.type \in {"Text", "Binary"}
    THEN (IF frame.fin THEN 128 ELSE 0)
    ELSE 128

\* a variant that writes the low-order byte first
u16_to_be_bytes_LittleEndian(n) == <<n % 256, (n \div 256) % 256>>

u16_to_be_bytes(n) == <<(n \div 256) % 256, n % 256>>

(***************************************************************************)
(* The payload bytes Frame::send builds out of the frame (frame.rs:382-399)*)
(***************************************************************************)
Materialize(frame) ==
    CASE frame.type \in {"Text", "Binary"} -> frame.payload
      [] frame.type = "Close" ->
            IF IsSome(frame.payload)
            THEN u16_to_be_bytes(Unwrap(frame.payload)[1]) \o Unwrap(frame.payload)[2]
            ELSE <<>>
      [] frame.type \in {"Ping", "Pong"} ->
            IF IsSome(frame.payload) THEN Unwrap(frame.payload) ELSE <<>>

(***************************************************************************)
(* frame.rs:12-13.  (U64_MAX_MINUS_ONE, frame.rs:14, is 2^64 - 2: no       *)
(* payload length reaches it, and the lengths of this model stay below     *)
(* 2^31.)                                                                  *)
(***************************************************************************)
U16_MAX_MINUS_ONE == 65534
U16_MAX == 65535

\* the n low-order bytes of x, most significant first (uN::to_be_bytes)
RECURSIVE to_be_bytes(_, _)
to_be_bytes(x, n) ==
    IF n = 0 THEN <<>> ELSE Append(to_be_bytes(x \div 256, n - 1), x % 256)

\* a ^ b on values of `bits` bits
RECURSIVE xor(_, _, _)
xor(a, b, bits) ==
    IF bits = 0 THEN 0
    ELSE 2 * xor(a \div 2, b \div 2, bits - 1) + ((a + b) % 2)

(***************************************************************************)
(* The length field Frame::send builds for a payload of n bytes            *)
(* (frame.rs:408-421), before the masking bit is set.                      *)
(***************************************************************************)
payload_len_data(n) ==
    IF n <= 125 THEN <<n>>
    ELSE IF n <= U16_MAX_MINUS_ONE THEN <<126>> \o to_be_bytes(n, 2)
    ELSE <<127>> \o to_be_bytes(n, 8)

\* a variant of the masking that starts one byte further in the key
mask_payload_ShiftedKey(payload, masking_key) ==
    [i \in 1..Len(payload) |-> xor(payload[i], masking_key[(i % 4) + 1], 8)]

(***************************************************************************)
(* Payload masking (frame.rs:425-433).                                     *)
(***************************************************************************)
mask_payload(payload, masking_key) ==
    [i \in 1..Len(payload) |-> xor(payload[i], masking_key[((i - 1) % 4) + 1], 8)]

\* a variant of raw_frame that leaves the masking bit of the length byte clear
raw_frame_NoMaskBit(frame, payload, masking_key) ==
    <<opcode(frame) + fin(frame)>>
        \o payload_len_data(Len(payload))
        \o masking_key
        \o mask_payload(payload, masking_key)

(***************************************************************************)
(* The bytes of raw_frame (frame.rs:405-433) for a payload and a key.      *)
(***************************************************************************)
raw_frame(frame, payload, masking_key) ==
    LET len_data == payload_len_data(Len(payload)) IN
    <<opcode(frame) + fin(frame)>>
        \o <<len_data[1] + 128>> \o Tail(len_data)
        \o masking_key
        \o mask_payload(payload, masking_key)

(***************************************************************************)
(* rng.fill_bytes(&mut masking_key) (frame.rs:426-427): the generator is   *)
(* deterministic once seeded (builder.rs:97 seeds it from entropy); its    *)
(* output stream is represented by a fixed function of its position, which *)
(* is the generator's state.  The masking itself is checked for every key  *)
(* of Keys in SpecCodec.                                                   *)
(***************************************************************************)
Seeds == {0}

fill_bytes(pos) == [i \in 1..4 |-> (pos * 89 + i * 61 + 128) % 256]

(***************************************************************************)
(* The stream's write side (stream.rs poll_write / poll_shutdown over a    *)
(* TcpStream): a write after the half-close fails and transmits nothing.   *)
(* `by` is history: which code path wrote the frame.                       *)
(***************************************************************************)
stream_write(s, frame, bytes, by) ==
    IF s.wshut
    THEN [s |-> s, res |-> "WriteError"]
    ELSE [s |-> [s EXCEPT !.wire = Append(@, [frame |-> frame, by |-> by]),
                          !.raw = Append(@, bytes)],
          res |-> "Ok"]

\* a variant of Frame::send that draws the masking key before it checks the
\* size of a control frame
Frame_send_KeyFirst(s, frame, by) ==
    LET payload == Materialize(frame)
        masking_key == fill_bytes(s.rng)
        s1 == [s EXCEPT !.rng = @ + 1]
    IN  IF is_control(frame) /\ Len(payload) > ControlMax
        THEN [s |-> s1, res |-> "ControlFrameTooLargeError"]
        ELSE stream_write(s1, frame, raw_frame(frame, payload, masking_key), by)

(***************************************************************************)
(* Frame::send (frame.rs:373-446), on the state s of the sender.           *)
(***************************************************************************)
Frame_send(s, frame, by) ==
    LET payload == Materialize(frame) IN
    IF is_control(frame) /\ Len(payload) > ControlMax
    THEN [s |-> s, res |-> "ControlFrameTooLargeError"]
    ELSE LET masking_key == fill_bytes(s.rng)
             s1 == [s EXCEPT !.rng = @ + 1]
         IN  stream_write(s1, frame, raw_frame(frame, payload, masking_key), by)

(***************************************************************************)
(* String::from_utf8 as called by the decoder (frame.rs:541, 554, 579):    *)
(* whether the bytes are well-formed UTF-8.                                *)
(***************************************************************************)
IsCont(b) == b >= 128 /\ b <= 191

\* the length of the sequence a lead byte announces; 0 for a byte that
\* cannot start a sequence
utf8_char_width(c) ==
    IF c < 128 THEN 1
    ELSE IF c >= 194 /\ c <= 223 THEN 2
    ELSE IF c >= 224 /\ c <= 239 THEN 3
    ELSE IF c >= 240 /\ c <= 244 THEN 4
    ELSE 0

from_utf8_ok(b) ==
    LET n == Len(b)
        width(j) == utf8_char_width(b[j])
        WellFormedAt(j) ==
            /\ j + width(j) - 1 <= n
            /\ \A i \in (j + 1)..(j + width(j) - 1) : IsCont(b[i])
            /\ width(j) >= 3 =>
                  /\ b[j + 1] >= (IF b[j] = 224 THEN 160 ELSE IF b[j] = 240 THEN 144 ELSE 128)
                  /\ b[j + 1] <= (IF b[j] = 237 THEN 159 ELSE IF b[j] = 244 THEN 143 ELSE 191)
    IN  /\ \A j \in 1..n : width(j) > 0 \/ IsCont(b[j])
        /\ \A j \in 1..n : width(j) > 0 => WellFormedAt(j)
        /\ \A i \in 1..n : IsCont(b[i]) =>
              \E j \in 1..(i - 1) : i - j <= 3 /\ width(j) > i - j

Err(e) == [res |-> e, frame |-> None]
Ok(frame) == [res |-> "Ok", frame |-> Some(frame)]

RECURSIVE from_be_bytes(_)
from_be_bytes(b) ==
    IF b = <<>> THEN 0 ELSE from_be_bytes(SubSeq(b, 1, Len(b) - 1)) * 256 + b[Len(b)]

\* a variant of the dispatch that takes a Close with a one-byte payload for a
\* Close without payload
decode_opcode_ShortCloseAccepted(op, is_fin, payload, lft) ==
    LET payload_len == Len(payload) IN
    CASE op = 0 ->
            (CASE lft = "Text" ->
                    IF from_utf8_ok(payload)
                    THEN Ok(Text(payload, TRUE, is_fin))
                    ELSE Err("InvalidFrameError")
               [] lft = "Binary" -> Ok(Binary(payload, TRUE, is_fin))
               [] lft = "Control" -> Err("InvalidFrameError"))
      [] op = 1 ->
            IF from_utf8_ok(payload)
            THEN Ok(Text(payload, FALSE, is_fin))
            ELSE Err("InvalidFrameError")
      [] op = 2 -> Ok(Binary(payload, FALSE, is_fin))
      [] op >= 3 /\ op <= 7 -> Err("InvalidFrameError")
      [] op = 8 ->
            IF payload_len = 0 THEN Ok(Close(None))
            ELSE IF payload_len < 2 THEN Ok(Close(None))
            ELSE IF from_utf8_ok(SubSeq(payload, 3, payload_len))
            THEN Ok(Close(Some(<<from_be_bytes(SubSeq(payload, 1, 2)),
                                 SubSeq(payload, 3, payload_len)>>)))
            ELSE Err("InvalidFrameError")
      [] op = 9 ->
            IF payload_len = 0 THEN Ok(Ping(None)) ELSE Ok(Ping(Some(payload)))
      [] op = 10 ->
            IF payload_len = 0 THEN Ok(Pong(None)) ELSE Ok(Pong(Some(payload)))
      [] op >= 11 -> Err("InvalidFrameError")

(***************************************************************************)
(* The opcode dispatch of Frame::read_from_websocket (frame.rs:538-594).   *)
(***************************************************************************)
decode_opcode(op, is_fin, payload, lft) ==
    LET payload_len == Len(payload) IN
    CASE op = 0 ->
            (CASE lft = "Text" ->
                    IF from_utf8_ok(payload)
                    THEN Ok(Text(payload, TRUE, is_fin))
                    ELSE Err("InvalidFrameError")
               [] lft = "Binary" -> Ok(Binary(payload, TRUE, is_fin))
               [] lft = "Control" -> Err("InvalidFrameError"))
      [] op = 1 ->
            IF from_utf8_ok(payload)
            THEN Ok(Text(payload, FALSE, is_fin))
            ELSE Err("InvalidFrameError")
      [] op = 2 -> Ok(Binary(payload, FALSE, is_fin))
      [] op >= 3 /\ op <= 7 -> Err("InvalidFrameError")
      [] op = 8 ->
            IF payload_len = 0 THEN Ok(Close(None))
            ELSE IF payload_len < 2 THEN Err("InvalidFrameError")
            ELSE IF from_utf8_ok(SubSeq(payload, 3, payload_len))
            THEN Ok(Close(Some(<<from_be_bytes(SubSeq(payload, 1, 2)),
                                 SubSeq(payload, 3, payload_len)>>)))
            ELSE Err("InvalidFrameError")
      [] op = 9 ->
            IF payload_len = 0 THEN Ok(Ping(None)) ELSE Ok(Ping(Some(payload)))
      [] op = 10 ->
            IF payload_len = 0 THEN Ok(Pong(None)) ELSE Ok(Pong(Some(payload)))
      [] op >= 11 -> Err("InvalidFrameError")

\* a variant of the decoder that does not look at the mask bit
read_from_websocket_AcceptMasked(b, lft) ==
    IF Len(b) < 2 THEN Err("ReadError")
    ELSE
    LET first == b[2] % 128
        hdr == IF first <= 125 THEN 2 ELSE IF first = 126 THEN 4 ELSE 10
    IN  IF Len(b) < hdr THEN Err("ReadError")
        ELSE
        LET payload_len == IF first <= 125 THEN first
                           ELSE from_be_bytes(SubSeq(b, 3, hdr))
        IN  IF Len(b) < hdr + payload_len THEN Err("ReadError")
            ELSE decode_opcode(b[1] % 16, b[1] >= 128,
                               SubSeq(b, hdr + 1, hdr + payload_len), lft)

(***************************************************************************)
(* Frame::read_from_websocket (frame.rs:493-595) on the bytes b the stream *)
(* delivers before it ends; running out of bytes is a ReadError.           *)
(***************************************************************************)
read_from_websocket(b, lft) ==
    IF Len(b) < 2 THEN Err("ReadError")
    ELSE
    LET is_fin == b[1] >= 128
        op == b[1] % 16
        masked == b[2] >= 128
        first == b[2] % 128
        hdr == IF first <= 125 THEN 2 ELSE IF first = 126 THEN 4 ELSE 10
    IN  IF masked THEN Err("ReceivedMaskedFrameError")
        ELSE IF Len(b) < hdr THEN Err("ReadError")
        ELSE
        LET payload_len == IF first <= 125 THEN first
                           ELSE from_be_bytes(SubSeq(b, 3, hdr))
        IN  IF Len(b) < hdr + payload_len THEN Err("ReadError")
            ELSE decode_opcode(op, is_fin, SubSeq(b, hdr + 1, hdr + payload_len), lft)

(***************************************************************************)
(* WebSocketReadHalf (split.rs:29-83).  r is the read half's state, ev the *)
(* channel's content, b the bytes the peer sent.                           *)
(***************************************************************************)
\* a variant of receive_without_handling() that does not remember the type
\* of the data frame received
ReadHalf_receive_without_handling_NoContext(r, b) ==
    LET d == read_from_websocket(b, r.last_frame_type) IN
    [s |-> r, res |-> d.res, frame |-> d.frame]

\* a variant of receive_without_handling() that queues the Pong of a Ping
ReadHalf_receive_without_handling_QueuesPong(r, b) ==
    LET d == read_from_websocket(b, r.last_frame_type) IN
    IF d.res # "Ok" THEN [s |-> r, res |-> d.res, frame |-> None]
    ELSE [s |-> [r EXCEPT !.last_frame_type =
                    IF Unwrap(d.frame).type \in {"Text", "Binary"}
                    THEN Unwrap(d.frame).type ELSE @,
                          !.events =
                    IF Unwrap(d.frame).type = "Ping"
                    THEN Append(@, [kind |-> "SendPongFrame",
                                    frame |-> Pong(Unwrap(d.frame).payload)])
                    ELSE @],
          res |-> "Ok", frame |-> d.frame]

\* a variant of receive_without_handling() in which a control frame resets
\* the remembered type
ReadHalf_receive_without_handling_ControlResets(r, b) ==
    LET d == read_from_websocket(b, r.last_frame_type) IN
    IF d.res # "Ok" THEN [s |-> r, res |-> d.res, frame |-> None]
    ELSE [s |-> [r EXCEPT !.last_frame_type =
                    IF Unwrap(d.frame).type \in {"Text", "Binary"}
                    THEN Unwrap(d.frame).type ELSE "Control"],
          res |-> "Ok", frame |-> d.frame]

\* a variant of receive_without_handling() that forgets the remembered type
\* when the decoding fails
ReadHalf_receive_without_handling_ErrorResets(r, b) ==
    LET d == read_from_websocket(b, r.last_frame_type) IN
    IF d.res # "Ok"
    THEN [s |-> [r EXCEPT !.last_frame_type = "Control"], res |-> d.res, frame |-> None]
    ELSE [s |-> [r EXCEPT !.last_frame_type =
                    IF Unwrap(d.frame).type \in {"Text", "Binary"}
                    THEN Unwrap(d.frame).type ELSE @],
          res |-> "Ok", frame |-> d.frame]

ReadHalf_receive_without_handling(r, b) ==
    LET d == read_from_websocket(b, r.last_frame_type) IN
    IF d.res # "Ok" THEN [s |-> r, res |-> d.res, frame |-> None]
    ELSE [s |-> [r EXCEPT !.last_frame_type =
                    IF Unwrap(d.frame).type \in {"Text", "Binary"}
                    THEN Unwrap(d.frame).type ELSE @],
          res |-> "Ok", frame |-> d.frame]

SendPongFrame(frame) == [kind |-> "SendPongFrame", frame |-> frame]
SendCloseFrameAndShutdown(frame) == [kind |-> "SendCloseFrameAndShutdown", frame |-> frame]

\* a variant of the echo that keeps the reason of the received Close
EchoClose_KeepsReason(frame) == Close(frame.payload)

\* the echoed Close frame built at split.rs:52-56 and mod.rs:168-172
EchoClose(frame) ==
    Close(IF IsSome(frame.payload)
          THEN Some(<<Unwrap(frame.payload)[1], <<>>>>)
          ELSE None)

\* a variant of receive() that queues the Pong without the Ping's payload
ReadHalf_receive_PongWithoutPayload(r, b) ==
    LET d == ReadHalf_receive_without_handling(r, b) IN
    IF d.res # "Ok" THEN d
    ELSE LET frame == Unwrap(d.frame) IN
         CASE frame.type = "Ping" ->
                [d EXCEPT !.s.events = Append(@, SendPongFrame(Pong(None)))]
           [] frame.type = "Close" ->
                [d EXCEPT !.s.events = Append(@, SendCloseFrameAndShutdown(EchoClose(frame)))]
           [] OTHER -> d

\* self.sender.send(event) (split.rs:46-48, 57-59): std::sync::mpsc's send
\* fails when the Receiver has been dropped, which receive() maps to
\* ChannelError
Sender_send(r, event) ==
    IF r.connected
    THEN [s |-> [r EXCEPT !.events = Append(@, event)], res |-> "Ok"]
    ELSE [s |-> r, res |-> "ChannelError"]

\* what receive() does with the result d of receive_without_handling()
\* (split.rs:41-63): a Ping's Pong and a Close's echo go to the channel, and a
\* failure of the channel is the error returned
ReadHalf_receive_handling(d) ==
    IF d.res # "Ok" THEN d
    ELSE LET sent == CASE Unwrap(d.frame).type = "Ping" ->
                            Sender_send(d.s, SendPongFrame(Pong(Unwrap(d.frame).payload)))
                       [] Unwrap(d.frame).type = "Close" ->
                            Sender_send(d.s, SendCloseFrameAndShutdown(EchoClose(Unwrap(d.frame))))
                       [] OTHER -> [s |-> d.s, res |-> "Ok"]
         IN  IF sent.res # "Ok"
             THEN [s |-> sent.s, res |-> sent.res, frame |-> None]
             ELSE [s |-> sent.s, res |-> "Ok", frame |-> d.frame]

\* a variant of receive() that ignores the failure of sender.send()
ReadHalf_receive_IgnoresSendError(r, b) ==
    LET d == ReadHalf_receive_without_handling(r, b) IN
    IF d.res # "Ok" THEN d
    ELSE LET frame == Unwrap(d.frame) IN
         CASE frame.type = "Ping" ->
                [d EXCEPT !.s = Sender_send(@, SendPongFrame(Pong(frame.payload))).s]
           [] frame.type = "Close" ->
                [d EXCEPT !.s = Sender_send(@, SendCloseFrameAndShutdown(EchoClose(frame))).s]
           [] OTHER -> d

ReadHalf_receive(r, b) ==
    ReadHalf_receive_handling(ReadHalf_receive_without_handling(r, b))

(***************************************************************************)
(* WebSocketWriteHalf (split.rs:96-223).  s is the write half's state:     *)
(* shutdown, sent_closed and its stream (wshut, wire).                     *)
(***************************************************************************)
WriteHalf_send_without_events_check(s, frame, by) == Frame_send(s, frame, by)

\* a variant of shutdown() that half-closes the stream and leaves sent_closed
\* as it is
WriteHalf_shutdown_NoSentClosed(s) ==
    [s |-> [s EXCEPT !.wshut = TRUE], res |-> "Ok"]

WriteHalf_shutdown(s) ==
    [s |-> [s EXCEPT !.wshut = TRUE, !.sent_closed = TRUE], res |-> "Ok"]

\* a variant of the loop's body that sends the Pong of an event twice
WriteHalf_flush_event_PongTwice(s, event) ==
    CASE event.kind = "SendPongFrame" ->
            LET r == WriteHalf_send_without_events_check(s, event.frame, "pong")
            IN  IF r.res # "Ok" THEN r
                ELSE WriteHalf_send_without_events_check(r.s, event.frame, "pong")
      [] event.kind = "SendCloseFrameAndShutdown" ->
            IF s.sent_closed
            THEN LET r == WriteHalf_send_without_events_check(s, event.frame, "echo")
                 IN  IF r.res # "Ok" THEN r ELSE WriteHalf_shutdown(r.s)
            ELSE [s |-> s, res |-> "Ok"]

\* the body of flush()'s loop for one event (split.rs:107-118)
WriteHalf_flush_event(s, event) ==
    CASE event.kind = "SendPongFrame" ->
            WriteHalf_send_without_events_check(s, event.frame, "pong")
      [] event.kind = "SendCloseFrameAndShutdown" ->
            IF s.sent_closed
            THEN LET r == WriteHalf_send_without_events_check(s, event.frame, "echo")
                 IN  IF r.res # "Ok" THEN r ELSE WriteHalf_shutdown(r.s)
            ELSE [s |-> s, res |-> "Ok"]

\* a variant in which close() goes on to shutdown() after it sent the Close
\* frame (the call commented out at split.rs:198)
WriteHalf_after_flush_CloseShutsDown(s, call) ==
    IF call.op = "flush" THEN [s |-> s, res |-> "Ok"]
    ELSE IF s.shutdown \/ s.sent_closed
    THEN [s |-> s, res |-> "WebSocketClosedError"]
    ELSE LET r == WriteHalf_send_without_events_check(s, Unwrap(call.arg), "user") IN
         IF call.op = "close" /\ r.res = "Ok" THEN WriteHalf_shutdown(r.s) ELSE r

\* what follows the loop: flush() returns Ok(()), send() goes on at split.rs:130
WriteHalf_after_flush(s, call) ==
    IF call.op = "flush" THEN [s |-> s, res |-> "Ok"]
    ELSE IF s.shutdown \/ s.sent_closed
    THEN [s |-> s, res |-> "WebSocketClosedError"]
    ELSE WriteHalf_send_without_events_check(s, Unwrap(call.arg), "user")

(***************************************************************************)
(* The frames the application sends and the bytes the peer sends.          *)
(***************************************************************************)
BigPayload == Zeros(ControlMax + 1)

UserFrames ==
    { Text(<<97>>, FALSE, TRUE), Binary(<<7>>, FALSE, TRUE), Ping(None),
      Pong(Some(<<1>>)), Close(None), Ping(Some(BigPayload)),
      Binary(<<8>>, TRUE, FALSE) }

ClosePayloads == { None, Some(<<1000, <<>>>>) }

PeerText == <<129, 1, 97>>
PeerPing == <<137, 2, 171, 205>>
PeerPingBig == <<137, 126, 0, 126>> \o BigPayload
PeerPong == <<138, 0>>
PeerClose == <<136, 5, 3, 232, 98, 121, 101>>
PeerCloseEmpty == <<136, 0>>
PeerMasked == <<129, 129, 0, 0, 0, 0, 97>>

PeerWire ==
    { PeerText, PeerPing, PeerPingBig, PeerPong, PeerClose, PeerCloseEmpty, PeerMasked }

(***************************************************************************)
(* The split connection: the state after WebSocketBuilder::connect         *)
(* (builder.rs:85-102) and split().                                        *)
(***************************************************************************)
NoRet == [op |-> "none", arg |-> None, res |-> "Ok", frame |-> None]
NoCall == [op |-> "none", arg |-> None]

InitConnection ==
    /\ shutdown = FALSE
    /\ sent_closed = FALSE
    /\ wshut = FALSE
    /\ wire = <<>>
    /\ raw = <<>>
    /\ rng \in Seeds
    /\ events = <<>>
    /\ last_frame_type = "Control"
    /\ wpc = "idle"
    /\ wcall = NoCall
    /\ wret = NoRet
    /\ rret = [op |-> "none", input |-> <<>>, res |-> "Ok", frame |-> None]
    /\ pings = <<>>
    /\ closes = <<>>
    /\ ncalls = 0
    /\ nrecv = 0

Init ==
    /\ InitConnection
    /\ input = None
    /\ output = None

WS == [shutdown |-> shutdown, sent_closed |-> sent_closed, wshut |-> wshut, wire |-> wire,
       raw |-> raw, rng |-> rng]

SetWS(s) ==
    /\ shutdown' = s.shutdown
    /\ sent_closed' = s.sent_closed
    /\ wshut' = s.wshut
    /\ wire' = s.wire
    /\ raw' = s.raw
    /\ rng' = s.rng

RS == [last_frame_type |-> last_frame_type, events |-> events,
       connected |-> wpc # "dropped"]

PingsAfter(d) ==
    IF d.res = "Ok" /\ Unwrap(d.frame).type = "Ping"
    THEN Append(pings, Unwrap(d.frame).payload)
    ELSE pings

ClosesAfter(d) ==
    IF d.res = "Ok" /\ Unwrap(d.frame).type = "Close"
    THEN Append(closes, Unwrap(d.frame))
    ELSE closes

\* ReadHalf.receive(): one frame is read and its event queued
Receive(b) ==
    /\ nrecv < MaxRecv
    /\ LET d == ReadHalf_receive(RS, b) IN
        /\ last_frame_type' = d.s.last_frame_type
        /\ events' = d.s.events
        /\ rret' = [op |-> "receive", input |-> b, res |-> d.res, frame |-> d.frame]
        /\ pings' = PingsAfter(d)
        /\ closes' = ClosesAfter(d)
    /\ nrecv' = nrecv + 1
    /\ UNCHANGED <<shutdown, sent_closed, wshut, wire, raw, rng, wpc, wcall, wret, ncalls, input, output>>

\* ReadHalf.receive_without_handling()
ReceiveWithoutHandling(b) ==
    /\ nrecv < MaxRecv
    /\ LET d == ReadHalf_receive_without_handling(RS, b) IN
        /\ last_frame_type' = d.s.last_frame_type
        /\ events' = d.s.events
        /\ rret' = [op |-> "receive_without_handling", input |-> b,
                    res |-> d.res, frame |-> d.frame]
    /\ nrecv' = nrecv + 1
    /\ UNCHANGED <<shutdown, sent_closed, wshut, wire, raw, rng, wpc, wcall, wret, pings, closes, ncalls, input, output>>

\* a call of the write half begins; flush(), send() and close() all start with
\* flush()'s loop, whose iterations interleave with the read half's task
Call(op, arg) ==
    /\ wpc = "idle"
    /\ ncalls < MaxCalls
    /\ wpc' = "flush"
    /\ wcall' = [op |-> op, arg |-> arg]
    /\ ncalls' = ncalls + 1
    /\ UNCHANGED <<shutdown, sent_closed, wshut, wire, raw, rng, events, last_frame_type,
                   wret, rret, pings, closes, nrecv, input, output>>

WSend(frame) == Call("send", Some(frame))

\* close(payload) is send(Frame::Close { payload }) (split.rs:195-200)
WClose(payload) == Call("close", Some(Close(payload)))

WFlush == Call("flush", None)

Return(r) ==
    /\ SetWS(r.s)
    /\ wpc' = "idle"
    /\ wret' = [op |-> wcall.op, arg |-> wcall.arg, res |-> r.res, frame |-> None]

\* a variant of the loop's iteration in which try_recv() yields the newest
\* event of the channel
WFlushStep_NewestFirst ==
    /\ wpc = "flush"
    /\ events # <<>>
    /\ events' = SubSeq(events, 1, Len(events) - 1)
    /\ IF shutdown
       THEN Return(WriteHalf_after_flush(WS, wcall))
       ELSE LET r == WriteHalf_flush_event(WS, events[Len(events)]) IN
            IF r.res # "Ok"
            THEN Return(r)
            ELSE SetWS(r.s) /\ UNCHANGED <<wpc, wret>>
    /\ UNCHANGED <<last_frame_type, wcall, rret, pings, closes, ncalls, nrecv, input, output>>

\* one iteration of flush()'s loop: try_recv() yields an event (split.rs:103-119)
WFlushStep ==
    /\ wpc = "flush"
    /\ events # <<>>
    /\ events' = Tail(events)
    /\ IF shutdown
       THEN Return(WriteHalf_after_flush(WS, wcall))
       ELSE LET r == WriteHalf_flush_event(WS, Head(events)) IN
            IF r.res # "Ok"
            THEN Return(r)
            ELSE SetWS(r.s) /\ UNCHANGED <<wpc, wret>>
    /\ UNCHANGED <<last_frame_type, wcall, rret, pings, closes, ncalls, nrecv, input, output>>

\* a variant in which the call leaves the loop whatever the channel holds
WFlushEnd_NoDrain ==
    /\ wpc = "flush"
    /\ Return(WriteHalf_after_flush(WS, wcall))
    /\ UNCHANGED <<events, last_frame_type, wcall, rret, pings, closes, ncalls, nrecv, input, output>>

\* try_recv() finds the channel empty: the loop ends and the call completes
WFlushEnd ==
    /\ wpc = "flush"
    /\ events = <<>>
    /\ Return(WriteHalf_after_flush(WS, wcall))
    /\ UNCHANGED <<events, last_frame_type, wcall, rret, pings, closes, ncalls, nrecv, input, output>>

\* WriteHalf.shutdown() (split.rs:173-183)
WShutdown ==
    /\ wpc = "idle"
    /\ ncalls < MaxCalls
    /\ LET r == WriteHalf_shutdown(WS) IN
        /\ SetWS(r.s)
        /\ wret' = [op |-> "shutdown", arg |-> None, res |-> r.res, frame |-> None]
    /\ ncalls' = ncalls + 1
    /\ UNCHANGED <<events, last_frame_type, wpc, wcall, rret, pings, closes, nrecv, input, output>>

Next ==
    \/ \E frame \in UserFrames : WSend(frame)
    \/ \E payload \in ClosePayloads : WClose(payload)
    \/ WFlush
    \/ WFlushStep
    \/ WFlushEnd
    \/ WShutdown
    \/ \E b \in PeerWire : Receive(b)
    \/ \E b \in PeerWire : ReceiveWithoutHandling(b)

Spec == Init /\ [][Next]_vars

(***************************************************************************)
(* The split connection after a first shutdown() of the write half has     *)
(* returned Ok; ncalls and nrecv count the calls made after it.            *)
(***************************************************************************)
InitShutdown ==
    /\ rng \in Seeds
    /\ LET r == WriteHalf_shutdown([shutdown |-> FALSE, sent_closed |-> FALSE,
                                    wshut |-> FALSE, wire |-> <<>>, raw |-> <<>>,
                                    rng |-> rng])
       IN  /\ shutdown = r.s.shutdown
           /\ sent_closed = r.s.sent_closed
           /\ wshut = r.s.wshut
           /\ wire = r.s.wire
           /\ raw = r.s.raw
           /\ wret = [op |-> "shutdown", arg |-> None, res |-> r.res, frame |-> None]
    /\ events = <<>>
    /\ last_frame_type = "Control"
    /\ wpc = "idle"
    /\ wcall = NoCall
    /\ rret = [op |-> "none", input |-> <<>>, res |-> "Ok", frame |-> None]
    /\ pings = <<>>
    /\ closes = <<>>
    /\ ncalls = 0
    /\ nrecv = 0
    /\ input = None
    /\ output = None

SpecShutdown == InitShutdown /\ [][Next]_vars

(***************************************************************************)
(* The two halves with a peer that sends Pings of different payloads and   *)
(* Close frames: the order of the events in the channel shows on the       *)
(* stream.                                                                 *)
(***************************************************************************)
PeerPing2 == <<137, 1, 7>>

OrderWire == { PeerPing, PeerPing2, PeerClose, PeerCloseEmpty, PeerText }

NextOrder ==
    \/ \E b \in OrderWire : Receive(b)
    \/ WSend(Text(<<97>>, FALSE, TRUE))
    \/ WFlush
    \/ WFlushStep
    \/ WFlushEnd
    \/ WShutdown

SpecOrder == Init /\ [][NextOrder]_vars

(***************************************************************************)
(* The two halves with a peer that never stops sending Pings, and a write  *)
(* half whose task keeps running.  For the behaviours to stay within       *)
(* finitely many states, these two actions leave the history alone: the    *)
(* receive is not counted nor its Ping recorded, the frames written are    *)
(* not kept in wire and raw, and the generator's position is kept modulo   *)
(* 256, the period of fill_bytes.  The channel, unbounded in the program,  *)
(* holds at most MaxQueue events here.                                     *)
(***************************************************************************)
MaxQueue == 2

\* ReadHalf.receive() of a frame of the flood
FloodReceive(b) ==
    /\ Len(events) < MaxQueue
    /\ LET d == ReadHalf_receive(RS, b) IN
        /\ last_frame_type' = d.s.last_frame_type
        /\ events' = d.s.events
        /\ rret' = [op |-> "receive", input |-> b, res |-> d.res, frame |-> d.frame]
    /\ UNCHANGED <<shutdown, sent_closed, wshut, wire, raw, rng, wpc, wcall, wret,
                   pings, closes, ncalls, nrecv, input, output>>

\* what an iteration of flush()'s loop leaves of the write half's state
Forgetting(s) == [s EXCEPT !.wire = <<>>, !.raw = <<>>, !.rng = @ % 256]

\* a variant of the iteration that leaves the event it handled in the channel
FloodFlushStep_KeepsEvent ==
    /\ wpc = "flush"
    /\ events # <<>>
    /\ events' = events
    /\ IF shutdown
       THEN Return(WriteHalf_after_flush(WS, wcall))
       ELSE LET r == WriteHalf_flush_event(WS, Head(events)) IN
            IF r.res # "Ok"
            THEN Return([r EXCEPT !.s = Forgetting(r.s)])
            ELSE SetWS(Forgetting(r.s)) /\ UNCHANGED <<wpc, wret>>
    /\ UNCHANGED <<last_frame_type, wcall, rret, pings, closes, ncalls, nrecv, input, output>>

\* one iteration of flush()'s loop (split.rs:103-119)
FloodFlushStep ==
    /\ wpc = "flush"
    /\ events # <<>>
    /\ events' = Tail(events)
    /\ IF shutdown
       THEN Return(WriteHalf_after_flush(WS, wcall))
       ELSE LET r == WriteHalf_flush_event(WS, Head(events)) IN
            IF r.res # "Ok"
            THEN Return([r EXCEPT !.s = Forgetting(r.s)])
            ELSE SetWS(Forgetting(r.s)) /\ UNCHANGED <<wpc, wret>>
    /\ UNCHANGED <<last_frame_type, wcall, rret, pings, closes, ncalls, nrecv, input, output>>

NextFlood ==
    \/ FloodReceive(PeerPing2)
    \/ WFlush
    \/ FloodFlushStep
    \/ WFlushEnd
    \/ WShutdown

\* the task that called flush() keeps being polled by the runtime; nothing
\* is required of the read half
SpecFlood ==
    /\ Init /\ [][NextFlood]_vars
    /\ WF_vars(FloodFlushStep)
    /\ WF_vars(WFlushEnd)

(***************************************************************************)
(* The write half on its own (no event arrives): frames of every type,     *)
(* with control payloads on both sides of the 125-byte limit.              *)
(***************************************************************************)
SendFrames ==
    { Text(<<97>>, FALSE, TRUE), Text(<<98>>, TRUE, FALSE), Binary(Zeros(ControlMax + 1), FALSE, TRUE) }
    \cup { Ping(p) : p \in {None, Some(Zeros(ControlMax)), Some(Zeros(ControlMax + 1))} }
    \cup { Pong(p) : p \in {None, Some(Zeros(ControlMax)), Some(Zeros(ControlMax + 1))} }

SendClosePayloads ==
    { None, Some(<<1000, Zeros(ControlMax - 2)>>), Some(<<1000, Zeros(ControlMax - 1)>>) }

NextSend ==
    \/ \E frame \in SendFrames : WSend(frame)
    \/ \E payload \in SendClosePayloads : WClose(payload)
    \/ WFlushEnd
    \/ WShutdown

SpecSend == Init /\ [][NextSend]_vars

(***************************************************************************)
(* The decoder on its own: the read half receives frames of every opcode,  *)
(* fin bit, mask bit and length form.  PeerFrame lays a frame out as the   *)
(* decoder reads it (frame.rs:497-536): fin and opcode, mask bit and       *)
(* length in the 7-bit (form 7), 16-bit (form 16) or 64-bit (form 64)      *)
(* form, the masking key of a masked frame, the payload.                   *)
(***************************************************************************)
PeerFrame(f, op, m, form, payload) ==
    <<f * 128 + op>>
        \o (CASE form = 7 -> <<m * 128 + Len(payload)>>
              [] form = 16 -> <<m * 128 + 126>> \o to_be_bytes(Len(payload), 2)
              [] form = 64 -> <<m * 128 + 127>> \o to_be_bytes(Len(payload), 8))
        \o (IF m = 1 THEN <<1, 2, 3, 4>> ELSE <<>>)
        \o payload

DecodeOpcodes == {0, 1, 2, 3, 8, 9, 10, 11}

DecodeWire ==
    { PeerFrame(f, op, 0, 7, p) :
        f \in {0, 1}, op \in DecodeOpcodes, p \in {<<>>, <<97>>, <<255>>, <<3, 232, 98>>} }
    \cup { PeerFrame(1, op, 1, form, p) :
        op \in {0, 1, 2, 8, 9, 10}, form \in {7, 16, 64}, p \in {<<>>, <<97>>} }
    \cup { PeerFrame(1, op, 0, form, Zeros(n)) :
        op \in {1, 2, 8, 9, 10}, form \in {16, 64}, n \in {ControlMax, ControlMax + 1} }

NextDecode == \E b \in DecodeWire : ReceiveWithoutHandling(b)

SpecDecode == Init /\ [][NextDecode]_vars

(***************************************************************************)
(* The decoder's dispatch on its own: unmasked frames of each of the 16    *)
(* opcodes, with payloads of 0, 1, 2 and 3 bytes, the third byte valid     *)
(* UTF-8 or not.                                                           *)
(***************************************************************************)
DispatchWire ==
    { PeerFrame(f, op, 0, 7, p) :
        f \in {0, 1}, op \in 0..15,
        p \in {<<>>, <<97>>, <<255>>, <<3, 232>>, <<3, 232, 98>>, <<3, 232, 255>>} }

NextDispatch == \E b \in DispatchWire : ReceiveWithoutHandling(b)

SpecDispatch == Init /\ [][NextDispatch]_vars

(***************************************************************************)
(* The read half on its own, with both of its methods: receive() and       *)
(* receive_without_handling() read frames of every kind.                   *)
(***************************************************************************)
NextReceive ==
    \/ \E b \in DecodeWire : Receive(b)
    \/ \E b \in DecodeWire : ReceiveWithoutHandling(b)

SpecReceive == Init /\ [][NextReceive]_vars

(***************************************************************************)
(* The read half with a peer whose frames fail to decode: masked frames,   *)
(* frames cut short by the end of the stream, reserved opcodes, text that  *)
(* is not UTF-8, a Close with a one-byte payload; and among them frames    *)
(* that decode, which set the context and queue events.                    *)
(***************************************************************************)
FailureWire ==
    { PeerText, PeerPing, PeerClose, PeerMasked,
      PeerFrame(0, 2, 0, 7, <<7>>), PeerFrame(1, 0, 0, 7, <<97>>),
      PeerFrame(1, 9, 1, 7, <<97>>), PeerFrame(1, 8, 1, 7, <<>>),
      <<129>>, <<129, 5, 97>>, <<137, 126, 0>>,
      PeerFrame(1, 3, 0, 7, <<>>), PeerFrame(1, 11, 0, 7, <<97>>),
      PeerFrame(1, 1, 0, 7, <<255>>), PeerFrame(1, 0, 0, 7, <<255>>),
      PeerFrame(1, 8, 0, 7, <<1>>), PeerFrame(1, 8, 0, 7, <<3, 232, 255>>) }

NextFailure ==
    \/ \E b \in FailureWire : Receive(b)
    \/ \E b \in FailureWire : ReceiveWithoutHandling(b)

SpecFailure == Init /\ [][NextFailure]_vars

(***************************************************************************)
(* The read half while the application may drop the write half: dropping   *)
(* a WebSocketWriteHalf drops its Receiver (split.rs:93) and with it the   *)
(* events still in the channel.                                            *)
(***************************************************************************)
WDrop ==
    /\ wpc = "idle"
    /\ wpc' = "dropped"
    /\ events' = <<>>
    /\ UNCHANGED <<shutdown, sent_closed, wshut, wire, raw, rng, last_frame_type, wcall,
                   wret, rret, pings, closes, ncalls, nrecv, input, output>>

NextChannel ==
    \/ \E b \in DecodeWire : Receive(b)
    \/ \E b \in DecodeWire : ReceiveWithoutHandling(b)
    \/ WDrop

SpecChannel == Init /\ [][NextChannel]_vars

(***************************************************************************)
(* The read half from its construction, or after its receive() has         *)
(* returned the first frame of a fragmented message (a Text or Binary      *)
(* frame without the fin bit); nrecv counts the calls made after that.     *)
(***************************************************************************)
FirstFragments == { PeerFrame(0, 1, 0, 7, <<97>>), PeerFrame(0, 2, 0, 7, <<255>>) }

InitContinuation ==
    \/ Init
    \/ /\ \E b \in FirstFragments :
             LET d == ReadHalf_receive([last_frame_type |-> "Control", events |-> <<>>,
                                        connected |-> TRUE], b)
             IN  /\ last_frame_type = d.s.last_frame_type
                 /\ events = d.s.events
                 /\ rret = [op |-> "receive", input |-> b, res |-> d.res, frame |-> d.frame]
       /\ shutdown = FALSE
       /\ sent_closed = FALSE
       /\ wshut = FALSE
       /\ wire = <<>>
       /\ raw = <<>>
       /\ rng \in Seeds
       /\ wpc = "idle"
       /\ wcall = NoCall
       /\ wret = NoRet
       /\ pings = <<>>
       /\ closes = <<>>
       /\ ncalls = 0
       /\ nrecv = 0
       /\ input = None
       /\ output = None

SpecContinuation == InitContinuation /\ [][NextReceive]_vars

(***************************************************************************)
(* The encoder's functions on their own: the length field for a payload    *)
(* length, and the frame built for a payload and a masking key.            *)
(***************************************************************************)
Lengths ==
    (0..(ControlMax + 1 + LenWindow))
        \cup ((U16_MAX - LenWindow)..(U16_MAX + LenWindow))
        \cup {16777216, 2147483647}

Keys == { <<0, 0, 0, 0>>, <<1, 2, 4, 8>>, <<255, 170, 85, 15>> }

PayloadBytes == {0, 97, 255}

Payloads == UNION { [1..n -> PayloadBytes] : n \in 0..MaxPayload }

MaskFrames ==
    { Binary(p, FALSE, TRUE) : p \in Payloads \cup {[i \in 1..(ControlMax + 1) |-> i]} }
        \cup { Text(<<97, 98, 99, 100, 101>>, FALSE, TRUE), Ping(Some(<<1, 2, 3, 4, 5, 6>>)),
                Close(Some(<<1000, <<98, 121, 101>>>>)) }

\* frames of every variant, with both values of continuation and of fin
HeaderFrames ==
    { Text(p, c, f) : p \in {<<>>, <<97>>}, c \in BOOLEAN, f \in BOOLEAN }
        \cup { Binary(p, c, f) : p \in {<<>>, <<255>>}, c \in BOOLEAN, f \in BOOLEAN }
        \cup { Close(None), Close(Some(<<1000, <<>>>>)), Ping(None), Ping(Some(<<1>>)),
                Pong(None), Pong(Some(<<1>>)), Ping(Some(<<>>)), Pong(Some(<<>>)),
                Ping(Some(Zeros(ControlMax))), Close(Some(<<1000, Zeros(ControlMax - 2)>>)),
                Binary(Zeros(U16_MAX), FALSE, TRUE) }

CodecInputs ==
    { [fn |-> "payload_len_data", n |-> n] : n \in Lengths }
        \cup { [fn |-> "raw_frame", frame |-> f, masking_key |-> k] :
                  f \in MaskFrames \cup HeaderFrames, k \in Keys }

InitCodec ==
    /\ InitConnection
    /\ input \in { Some(x) : x \in CodecInputs }
    /\ output = None

ConnectionVars ==
    <<shutdown, sent_closed, wshut, wire, raw, rng, events, last_frame_type,
      wpc, wcall, wret, rret, pings, closes, ncalls, nrecv>>

\* frame.rs:408-421 applied to the payload length
EncodeLength ==
    /\ IsSome(input) /\ output = None
    /\ Unwrap(input).fn = "payload_len_data"
    /\ output' = Some(payload_len_data(Unwrap(input).n))
    /\ UNCHANGED <<ConnectionVars, input>>

\* frame.rs:405-433 applied to the frame and the key
EncodeFrame ==
    /\ IsSome(input) /\ output = None
    /\ Unwrap(input).fn = "raw_frame"
    /\ output' = Some(raw_frame(Unwrap(input).frame, Materialize(Unwrap(input).frame),
                                Unwrap(input).masking_key))
    /\ UNCHANGED <<ConnectionVars, input>>

NextCodec == EncodeLength \/ EncodeFrame

SpecCodec == InitCodec /\ [][NextCodec]_vars

(***************************************************************************)
(* The texts of the handshake, as their bytes.                             *)
(***************************************************************************)
str_HTTP == <<72, 84, 84, 80, 47>>  \* "HTTP/"
SampleKey == <<100, 71, 104, 108, 73, 72, 78, 104, 98, 88, 66, 115, 90, 83, 66, 117, 98, 50, 53, 106, 90, 81, 61, 61>>  \* "dGhlIHNhbXBsZSBub25jZQ=="
SampleKeyAccept == <<115, 51, 112, 80, 76, 77, 66, 105, 84, 120, 97, 81, 57, 107, 89, 71, 122, 122, 104, 90, 82, 98, 75, 43, 120, 79, 111, 61>>  \* "s3pPLMBiTxaQ9kYGzzhZRbK+xOo="
ZeroKey == <<65, 65, 65, 65, 65, 65, 65, 65, 65, 65, 65, 65, 65, 65, 65, 65, 65, 65, 65, 65, 65, 65, 61, 61>>  \* "AAAAAAAAAAAAAAAAAAAAAA=="
ZeroKeyAccept == <<73, 67, 88, 43, 89, 113, 118, 54, 54, 107, 120, 103, 77, 48, 70, 99, 87, 97, 76, 87, 108, 70, 76, 119, 84, 65, 73, 61>>  \* "ICX+Yqv66kxgM0FcWaLWlFLwTAI="
str_content_length == <<99, 111, 110, 116, 101, 110, 116, 45, 108, 101, 110, 103, 116, 104>>  \* "content-length"
str_upgrade == <<117, 112, 103, 114, 97, 100, 101>>  \* "upgrade"
str_connection == <<99, 111, 110, 110, 101, 99, 116, 105, 111, 110>>  \* "connection"
str_sec_websocket_extensions == <<115, 101, 99, 45, 119, 101, 98, 115, 111, 99, 107, 101, 116, 45, 101, 120, 116, 101, 110, 115, 105, 111, 110, 115>>  \* "sec-websocket-extensions"
str_sec_websocket_protocol == <<115, 101, 99, 45, 119, 101, 98, 115, 111, 99, 107, 101, 116, 45, 112, 114, 111, 116, 111, 99, 111, 108>>  \* "sec-websocket-protocol"
str_sec_websocket_accept == <<115, 101, 99, 45, 119, 101, 98, 115, 111, 99, 107, 101, 116, 45, 97, 99, 99, 101, 112, 116>>  \* "sec-websocket-accept"
str_websocket == <<119, 101, 98, 115, 111, 99, 107, 101, 116>>  \* "websocket"
str_101 == <<49, 48, 49>>  \* "101"
str_chat == <<99, 104, 97, 116>>  \* "chat"
str_superchat == <<115, 117, 112, 101, 114, 99, 104, 97, 116>>  \* "superchat"
str_StatusLine101 == <<72, 84, 84, 80, 47, 49, 46, 49, 32, 49, 48, 49, 32, 83, 119, 105, 116, 99, 104, 105, 110, 103, 32, 80, 114, 111, 116, 111, 99, 111, 108, 115>>  \* "HTTP/1.1 101 Switching Protocols"
str_400 == <<52, 48, 48>>  \* "400"
str_StatusLine400 == <<72, 84, 84, 80, 47, 49, 46, 49, 32, 52, 48, 48, 32, 66, 97, 100, 32, 82, 101, 113, 117, 101, 115, 116>>  \* "HTTP/1.1 400 Bad Request"
str_200 == <<50, 48, 48>>  \* "200"
str_StatusLine200 == <<72, 84, 84, 80, 47, 49, 46, 48, 32, 50, 48, 48, 32, 79, 75>>  \* "HTTP/1.0 200 OK"
str_Upgrade == <<85, 112, 103, 114, 97, 100, 101>>  \* "Upgrade"
str_WebSocket == <<87, 101, 98, 83, 111, 99, 107, 101, 116>>  \* "WebSocket"
str_h2c == <<104, 50, 99>>  \* "h2c"
str_Connection == <<67, 111, 110, 110, 101, 99, 116, 105, 111, 110>>  \* "Connection"
str_CONNECTION == <<67, 79, 78, 78, 69, 67, 84, 73, 79, 78>>  \* "CONNECTION"
str_keep_alive == <<107, 101, 101, 112, 45, 97, 108, 105, 118, 101>>  \* "keep-alive"
str_Sec_WebSocket_Extensions == <<83, 101, 99, 45, 87, 101, 98, 83, 111, 99, 107, 101, 116, 45, 69, 120, 116, 101, 110, 115, 105, 111, 110, 115>>  \* "Sec-WebSocket-Extensions"
str_permessage_deflate == <<112, 101, 114, 109, 101, 115, 115, 97, 103, 101, 45, 100, 101, 102, 108, 97, 116, 101>>  \* "permessage-deflate"
str_Sec_WebSocket_Protocol == <<83, 101, 99, 45, 87, 101, 98, 83, 111, 99, 107, 101, 116, 45, 80, 114, 111, 116, 111, 99, 111, 108>>  \* "Sec-WebSocket-Protocol"
str_mqtt == <<109, 113, 116, 116>>  \* "mqtt"
str_Sec_WebSocket_Accept == <<83, 101, 99, 45, 87, 101, 98, 83, 111, 99, 107, 101, 116, 45, 65, 99, 99, 101, 112, 116>>  \* "Sec-WebSocket-Accept"
str_abc == <<97, 98, 99>>  \* "abc"
str_Content_Length == <<67, 111, 110, 116, 101, 110, 116, 45, 76, 101, 110, 103, 116, 104>>  \* "Content-Length"
str_3 == <<51>>  \* "3"
str_5 == <<53>>  \* "5"

(***************************************************************************)
(* The opening handshake's response check (handshake.rs:85-219).  The      *)
(* response is the sequence of bytes the stream delivers.                  *)
(***************************************************************************)
CRLF == <<13, 10>>

\* str::to_lowercase on ASCII text
to_lowercase(str) ==
    [i \in 1..Len(str) |-> IF str[i] >= 65 /\ str[i] <= 90 THEN str[i] + 32 ELSE str[i]]

\* read_line: the bytes up to and including the first LF, or all of them
read_line(b) ==
    LET nl == { i \in 1..Len(b) : b[i] = 10 }
        end == IF nl = {} THEN Len(b) ELSE CHOOSE i \in nl : \A j \in nl : i <= j
    IN  [line |-> SubSeq(b, 1, end), rest |-> SubSeq(b, end + 1, Len(b))]

IsDigit(c) == c >= 48 /\ c <= 57

\* the class \s of the regex crate, on ASCII
IsSpace(c) == c \in {9, 10, 11, 12, 13, 32}

\* \d+ : the number of digits of line from position j on
digits_from(line, j) ==
    CHOOSE d \in 0..(Len(line) + 1) :
        /\ \A x \in j..(j + d - 1) : x <= Len(line) /\ IsDigit(line[x])
        /\ (j + d > Len(line) \/ ~IsDigit(line[j + d]))

\* HTTP/\d+\.\d+ (?P<status_code>\d{3}) .+\r\n matched at position i of line
\* (handshake.rs:88); sp is the position of the space before the status code
status_line_space(line, i) ==
    i + 5 + digits_from(line, i + 5) + 1
        + digits_from(line, i + 5 + digits_from(line, i + 5) + 1)

status_line_matches_at(line, i) ==
    LET n == Len(line)
        d1 == digits_from(line, i + 5)
        dot == i + 5 + d1
        d2 == digits_from(line, dot + 1)
        sp == dot + 1 + d2
    IN  /\ i + 4 <= n
        /\ SubSeq(line, i, i + 4) = str_HTTP
        /\ d1 >= 1 /\ dot <= n /\ line[dot] = 46
        /\ d2 >= 1 /\ sp <= n /\ line[sp] = 32
        /\ sp + 7 <= n
        /\ \A x \in (sp + 1)..(sp + 3) : IsDigit(line[x])
        /\ line[sp + 4] = 32
        /\ line[n - 1] = 13 /\ line[n] = 10

\* status_line_regex.captures(&status_line): the status code of the leftmost match
status_line_captures(line) ==
    LET starts == { i \in 1..Len(line) : status_line_matches_at(line, i) } IN
    IF starts = {} THEN None
    ELSE LET i == CHOOSE i \in starts : \A j \in starts : i <= j
             sp == status_line_space(line, i)
         IN  Some(SubSeq(line, sp + 1, sp + 3))

\* the text without its leading and trailing white space
trim(str) ==
    LET ink == { i \in 1..Len(str) : ~IsSpace(str[i]) } IN
    IF ink = {} THEN <<>>
    ELSE SubSeq(str, CHOOSE i \in ink : \A j \in ink : i <= j,
                     CHOOSE i \in ink : \A j \in ink : i >= j)

\* headers_regex.captures(&header) for (?P<field>.+?):\s*(?P<value>.*?)\s*\r\n
\* (handshake.rs:102, 110-115): the field is the text before the first colon
\* that is not the line's first character, the value the rest without the
\* white space around it
header_captures(line) ==
    LET n == Len(line)
        colons == { c \in 2..(n - 2) : line[c] = 58 }
    IN  IF n < 2 \/ line[n - 1] # 13 \/ line[n] # 10 \/ colons = {} THEN None
        ELSE LET c == CHOOSE c \in colons : \A j \in colons : c <= j
             IN  Some(<<SubSeq(line, 1, c - 1), trim(SubSeq(line, c + 1, n - 2))>>)

\* the loop of handshake.rs:103-118: header lines are read until one does
\* not match (that line is consumed as well)
RECURSIVE read_headers(_, _)
read_headers(b, headers) ==
    LET rl == read_line(b)
        captures == header_captures(rl.line)
    IN  IF IsSome(captures)
        THEN read_headers(rl.rest, Append(headers, Unwrap(captures)))
        ELSE [headers |-> headers, rest |-> rl.rest]

\* a variant of the header lookup that compares the field names as they are
find_header_CaseSensitive(headers, name) ==
    LET found == { i \in 1..Len(headers) : headers[i][1] = name } IN
    IF found = {} THEN None
    ELSE Some(headers[CHOOSE i \in found : \A j \in found : i <= j])

\* headers.iter().find(|(field, _)| field.to_lowercase() == name)
find_header(headers, name) ==
    LET found == { i \in 1..Len(headers) : to_lowercase(headers[i][1]) = name } IN
    IF found = {} THEN None
    ELSE Some(headers[CHOOSE i \in found : \A j \in found : i <= j])

RECURSIVE decimal(_)
decimal(digits) ==
    IF digits = <<>> THEN 0
    ELSE decimal(SubSeq(digits, 1, Len(digits) - 1)) * 10 + (digits[Len(digits)] - 48)

\* str::parse::<usize>() (handshake.rs:127-130), for values that fit
parse_usize(str) ==
    LET digits == IF str # <<>> /\ str[1] = 43 THEN Tail(str) ELSE str IN
    IF digits = <<>> \/ \E i \in 1..Len(digits) : ~IsDigit(digits[i])
    THEN None
    ELSE Some(decimal(digits))

\* base64(SHA1(key || GUUID)) (handshake.rs:209-212), tabulated for the keys
\* of ClientKeys
calculated_accept_key(key) ==
    CASE key = SampleKey ->
            SampleKeyAccept
      [] key = ZeroKey ->
            ZeroKeyAccept

\* what check_response leaves behind: its result, the fields of the error,
\* the two fields of the WebSocket it sets and the bytes it has not read
HandshakeResult(res, status_code, headers, body, subprotocol, kept, rest) ==
    [res |-> res, status_code |-> status_code, headers |-> headers, body |-> body,
     accepted_subprotocol |-> subprotocol, handshake_response_headers |-> kept,
     rest |-> rest]

InvalidHandshake(subprotocol, rest) ==
    HandshakeResult("InvalidHandshakeError", None, None, None, subprotocol, None, rest)

\* a variant of the rejection that never reads a body
check_rejection_NoBody(status_code, headers, rest) ==
    HandshakeResult("HandshakeFailedError", Some(status_code), Some(headers), None,
                    None, None, rest)

\* handshake.rs:120-149: the response's status code is not 101
check_rejection(status_code, headers, rest) ==
    LET content_length == find_header(headers, str_content_length) IN
    IF content_length = None
    THEN HandshakeResult("HandshakeFailedError", Some(status_code), Some(headers), None,
                         None, None, rest)
    ELSE LET body_length == parse_usize(Unwrap(content_length)[2]) IN
         IF body_length = None THEN InvalidHandshake(None, rest)
         ELSE IF Len(rest) < Unwrap(body_length)
         THEN HandshakeResult("ReadError", None, None, None, None, None, <<>>)
         ELSE LET body == SubSeq(rest, 1, Unwrap(body_length))
                  after == SubSeq(rest, Unwrap(body_length) + 1, Len(rest))
              IN  IF ~from_utf8_ok(body) THEN InvalidHandshake(None, after)
                  ELSE HandshakeResult("HandshakeFailedError", Some(status_code),
                                       Some(headers), Some(body), None, None, after)

\* a variant of the checks of a 101 response that takes any subprotocol the
\* server names once the client has offered one
check_upgrade_AnyOffered(self, headers, rest) ==
    LET upgrade == find_header(headers, str_upgrade)
        connection == find_header(headers, str_connection)
        extensions == find_header(headers, str_sec_websocket_extensions)
        possible_subprotocol == find_header(headers, str_sec_websocket_protocol)
        accept_key == find_header(headers, str_sec_websocket_accept)
        subprotocol == IF IsSome(possible_subprotocol)
                       THEN Some(Unwrap(possible_subprotocol)[2]) ELSE None
    IN  IF upgrade = None THEN InvalidHandshake(None, rest)
        ELSE IF to_lowercase(Unwrap(upgrade)[2]) # str_websocket
        THEN InvalidHandshake(None, rest)
        ELSE IF connection = None THEN InvalidHandshake(None, rest)
        ELSE IF to_lowercase(Unwrap(connection)[2]) # str_upgrade
        THEN InvalidHandshake(None, rest)
        ELSE IF IsSome(extensions) THEN InvalidHandshake(None, rest)
        ELSE IF IsSome(subprotocol) /\ Len(self.subprotocols) = 0
        THEN InvalidHandshake(None, rest)
        ELSE IF accept_key = None THEN InvalidHandshake(subprotocol, rest)
        ELSE IF Unwrap(accept_key)[2] # calculated_accept_key(self.key)
        THEN InvalidHandshake(subprotocol, rest)
        ELSE HandshakeResult("Ok", None, None, None, subprotocol, Some(headers), rest)

\* handshake.rs:151-218: the checks of a 101 response
check_upgrade(self, headers, rest) ==
    LET upgrade == find_header(headers, str_upgrade)
        connection == find_header(headers, str_connection)
        extensions == find_header(headers, str_sec_websocket_extensions)
        possible_subprotocol == find_header(headers, str_sec_websocket_protocol)
        accept_key == find_header(headers, str_sec_websocket_accept)
        offered == { self.subprotocols[i] : i \in 1..Len(self.subprotocols) }
        subprotocol == IF IsSome(possible_subprotocol)
                       THEN Some(Unwrap(possible_subprotocol)[2]) ELSE None
    IN  IF upgrade = None THEN InvalidHandshake(None, rest)
        ELSE IF to_lowercase(Unwrap(upgrade)[2]) # str_websocket
        THEN InvalidHandshake(None, rest)
        ELSE IF connection = None THEN InvalidHandshake(None, rest)
        ELSE IF to_lowercase(Unwrap(connection)[2]) # str_upgrade
        THEN InvalidHandshake(None, rest)
        ELSE IF IsSome(extensions) THEN InvalidHandshake(None, rest)
        ELSE IF IsSome(subprotocol) /\ Unwrap(subprotocol) \notin offered
        THEN InvalidHandshake(None, rest)
        ELSE IF accept_key = None THEN InvalidHandshake(subprotocol, rest)
        ELSE IF Unwrap(accept_key)[2] # calculated_accept_key(self.key)
        THEN InvalidHandshake(subprotocol, rest)
        ELSE HandshakeResult("Ok", None, None, None, subprotocol, Some(headers), rest)

\* Handshake::check_response on the handshake self and the bytes b
check_response(self, b) ==
    LET sl == read_line(b)
        captures == status_line_captures(sl.line)
    IN  IF captures = None THEN InvalidHandshake(None, sl.rest)
        ELSE LET hs == read_headers(sl.rest, <<>>) IN
             IF Unwrap(captures) # str_101
             THEN check_rejection(Unwrap(captures), hs.headers, hs.rest)
             ELSE check_upgrade(self, hs.headers, hs.rest)

(***************************************************************************)
(* The handshakes and the responses check_response is applied to.  A       *)
(* response is kept as the server composed it (status code, header list,   *)
(* bytes after the blank line) together with the bytes of the stream.      *)
(***************************************************************************)
ClientKeys == { SampleKey, ZeroKey }

OfferedSubprotocols ==
    { <<>>, <<str_chat>>, <<str_superchat, str_chat>> }

StatusLines ==
    { [status_code |-> str_101, line |-> str_StatusLine101 \o CRLF],
      [status_code |-> str_400, line |-> str_StatusLine400 \o CRLF],
      [status_code |-> str_200, line |-> str_StatusLine200 \o CRLF] }

UpgradeHeaders ==
    { <<>>,
      << <<str_Upgrade, str_websocket>> >>,
      << <<str_upgrade, str_WebSocket>> >>,
      << <<str_Upgrade, str_h2c>> >>,
      << <<str_Upgrade, str_h2c>>, <<str_Upgrade, str_websocket>> >> }

ConnectionHeaders ==
    { <<>>,
      << <<str_Connection, str_Upgrade>> >>,
      << <<str_CONNECTION, str_upgrade>> >>,
      << <<str_Connection, str_keep_alive>> >> }

ExtensionsHeaders ==
    { <<>>, << <<str_Sec_WebSocket_Extensions, str_permessage_deflate>> >> }

ProtocolHeaders ==
    { <<>>,
      << <<str_Sec_WebSocket_Protocol, str_chat>> >>,
      << <<str_sec_websocket_protocol, str_mqtt>> >>,
      << <<str_Sec_WebSocket_Protocol, str_chat>>, <<str_Sec_WebSocket_Protocol, str_mqtt>> >>,
      << <<str_Sec_WebSocket_Protocol, str_mqtt>>, <<str_Sec_WebSocket_Protocol, str_chat>> >> }

AcceptHeaders ==
    { <<>>,
      << <<str_Sec_WebSocket_Accept, SampleKeyAccept>> >>,
      << <<str_Sec_WebSocket_Accept, ZeroKeyAccept>> >> }

\* a Content-Length header, or none, and the bytes that follow the blank line
Bodies ==
    { [headers |-> <<>>, body |-> <<>>],
      [headers |-> <<>>, body |-> str_abc],
      [headers |-> << <<str_Content_Length, str_3>> >>, body |-> str_abc],
      [headers |-> << <<str_content_length, str_3>> >>, body |-> <<255, 254, 253>>],
      [headers |-> << <<str_Content_Length, str_abc>> >>, body |-> str_abc],
      [headers |-> << <<str_Content_Length, str_5>> >>, body |-> str_abc] }

HeaderLine(header) == header[1] \o <<58, 32>> \o header[2] \o CRLF

RECURSIVE HeaderLines(_)
HeaderLines(headers) ==
    IF headers = <<>> THEN <<>>
    ELSE HeaderLine(Head(headers)) \o HeaderLines(Tail(headers))

HandshakeInput(key, subprotocols, status, headers, body) ==
    [fn |-> "check_response",
     self |-> [key |-> key, subprotocols |-> subprotocols],
     status_code |-> status.status_code,
     headers |-> headers,
     body |-> body,
     stream |-> status.line \o HeaderLines(headers) \o CRLF \o body]

HandshakeInputs ==
    { HandshakeInput(key, subprotocols, status, u \o c \o e \o p \o a \o l.headers, l.body) :
        key \in ClientKeys, subprotocols \in OfferedSubprotocols, status \in StatusLines,
        u \in UpgradeHeaders, c \in ConnectionHeaders, e \in ExtensionsHeaders,
        p \in ProtocolHeaders, a \in AcceptHeaders, l \in Bodies }

InitHandshake ==
    /\ InitConnection
    /\ input \in { Some(x) : x \in HandshakeInputs }
    /\ output = None

\* handshake.check_response(&mut ws) as called by connect (builder.rs:111)
CheckResponse ==
    /\ IsSome(input) /\ output = None
    /\ Unwrap(input).fn = "check_response"
    /\ output' = Some(check_response(Unwrap(input).self, Unwrap(input).stream))
    /\ UNCHANGED <<ConnectionVars, input>>

NextHandshake == CheckResponse

SpecHandshake == InitHandshake /\ [][NextHandshake]_vars

(***************************************************************************)
(* Responses in which one line before the blank line may not be a header:  *)
(* the three headers of a valid upgrade, and among them, at any position,  *)
(* a line without a colon ("garbage", or a single space).  lines holds the *)
(* lines the server sent before the blank line, without their CRLF.        *)
(***************************************************************************)
UpgradeLines ==
    << str_Upgrade \o <<58, 32>> \o str_websocket,
       str_Connection \o <<58, 32>> \o str_Upgrade,
       str_Sec_WebSocket_Accept \o <<58, 32>> \o SampleKeyAccept >>

MalformedInputs ==
    LET lines == {UpgradeLines} \cup
                 { SubSeq(UpgradeLines, 1, k) \o <<g>> \o SubSeq(UpgradeLines, k + 1, 3) :
                     k \in 0..3, g \in { <<103, 97, 114, 98, 97, 103, 101>>, <<32>> } }
        text[ls \in lines] ==
            LET cat[i \in 0..Len(ls)] ==
                    IF i = 0 THEN <<>> ELSE cat[i - 1] \o ls[i] \o CRLF
            IN  cat[Len(ls)]
    IN  { [fn |-> "check_response",
           self |-> [key |-> key, subprotocols |-> <<>>],
           status_code |-> status.status_code,
           lines |-> ls,
           body |-> body,
           stream |-> status.line \o text[ls] \o CRLF \o body] :
            key \in ClientKeys, status \in StatusLines, ls \in lines,
            body \in { <<>>, <<129, 1, 97>> } }

InitMalformed ==
    /\ InitConnection
    /\ input \in { Some(x) : x \in MalformedInputs }
    /\ output = None

SpecMalformed == InitMalformed /\ [][NextHandshake]_vars

(***************************************************************************)
(* The builder's lists and the opening handshake's request                 *)
(* (builder.rs:120-152, handshake.rs:24-83).  A header is a pair           *)
(* <<name, value>>.                                                        *)
(***************************************************************************)
MaxOps == 4

\* the literals of Handshake::send_request (handshake.rs:49-70)
RequestText ==
    [Host |-> <<72, 111, 115, 116>>,
     Upgrade |-> <<85, 112, 103, 114, 97, 100, 101>>,
     websocket |-> <<119, 101, 98, 115, 111, 99, 107, 101, 116>>,
     Connection |-> <<67, 111, 110, 110, 101, 99, 116, 105, 111, 110>>,
     Key |-> <<83, 101, 99, 45, 87, 101, 98, 83, 111, 99, 107, 101, 116, 45, 75, 101, 121>>,
     Version |-> <<83, 101, 99, 45, 87, 101, 98, 115, 111, 99, 107, 101, 116, 45, 86, 101, 114, 115, 105, 111, 110>>,
     Protocol |-> <<83, 101, 99, 45, 87, 101, 98, 83, 111, 99, 107, 101, 116, 45, 80, 114, 111, 116, 111, 99, 111, 108>>,
     GET |-> <<71, 69, 84, 32>>,
     HTTP11 |-> <<32, 72, 84, 84, 80, 47, 49, 46, 49>> \o CRLF,
     colon |-> <<58, 32>>,
     comma |-> <<44, 32>>]

add_header(self, header_name, header_value) ==
    [self EXCEPT !.additional_handshake_headers = Append(@, <<header_name, header_value>>)]

remove_header(self, header_name) ==
    [self EXCEPT !.additional_handshake_headers =
        SelectSeq(@, LAMBDA header : header[1] # header_name)]

add_subprotocol(self, subprotocol) ==
    [self EXCEPT !.subprotocols = Append(@, subprotocol)]

remove_subprotocol(self, subprotocol) ==
    [self EXCEPT !.subprotocols = SelectSeq(@, LAMBDA s : s # subprotocol)]

\* Handshake::new (handshake.rs:24-43); the key is the base64 text of 16
\* random bytes
Handshake_new(parsed_addr, additional_handshake_headers, subprotocols, key) ==
    [path |-> parsed_addr.path, host |-> parsed_addr.host, key |-> key,
     version |-> 13,
     additional_headers |-> additional_handshake_headers,
     subprotocols |-> subprotocols]

\* a variant of send_request that puts Sec-WebSocket-Protocol after the
\* additional headers
send_request_ProtocolLast(self) ==
    LET join[i \in 0..Len(self.subprotocols)] ==
            IF i = 0 THEN <<>>
            ELSE IF i = 1 THEN self.subprotocols[1]
            ELSE join[i - 1] \o RequestText.comma \o self.subprotocols[i]
        headers ==
            << <<RequestText.Host, self.host>>,
               <<RequestText.Upgrade, RequestText.websocket>>,
               <<RequestText.Connection, RequestText.Upgrade>>,
               <<RequestText.Key, self.key>>,
               <<RequestText.Version, <<48 + (self.version \div 10), 48 + (self.version % 10)>> >> >>
            \o self.additional_headers
            \o (IF Len(self.subprotocols) > 0
                THEN << <<RequestText.Protocol, join[Len(self.subprotocols)]>> >>
                ELSE <<>>)
        req[i \in 0..Len(headers)] ==
            IF i = 0 THEN RequestText.GET \o self.path \o RequestText.HTTP11
            ELSE req[i - 1] \o headers[i][1] \o RequestText.colon \o headers[i][2] \o CRLF
    IN  req[Len(headers)] \o CRLF

\* Handshake::send_request (handshake.rs:45-83): the bytes of the request.
\* join is subprotocols.join(", "); the version is a number of two digits.
send_request(self) ==
    LET join[i \in 0..Len(self.subprotocols)] ==
            IF i = 0 THEN <<>>
            ELSE IF i = 1 THEN self.subprotocols[1]
            ELSE join[i - 1] \o RequestText.comma \o self.subprotocols[i]
        headers ==
            << <<RequestText.Host, self.host>>,
               <<RequestText.Upgrade, RequestText.websocket>>,
               <<RequestText.Connection, RequestText.Upgrade>>,
               <<RequestText.Key, self.key>>,
               <<RequestText.Version, <<48 + (self.version \div 10), 48 + (self.version % 10)>> >> >>
            \o (IF Len(self.subprotocols) > 0
                THEN << <<RequestText.Protocol, join[Len(self.subprotocols)]>> >>
                ELSE <<>>)
            \o self.additional_headers
        req[i \in 0..Len(headers)] ==
            IF i = 0 THEN RequestText.GET \o self.path \o RequestText.HTTP11
            ELSE req[i - 1] \o headers[i][1] \o RequestText.colon \o headers[i][2] \o CRLF
    IN  req[Len(headers)] \o CRLF

\* the names and values the application gives to the builder: two header
\* names that differ in case only, "a" and "A", with the values "1" and "2"
HeaderNames == { <<97>>, <<65>> }
HeaderValues == { <<49>>, <<50>> }

\* WebSocketBuilder::new (builder.rs:52-58); log is history: the calls made
InitBuilder ==
    /\ InitConnection
    /\ input = Some([builder |-> [additional_handshake_headers |-> <<>>, subprotocols |-> <<>>],
                     log |-> <<>>])
    /\ output = None

BuilderCall(self, op, name, value) ==
    /\ IsSome(input) /\ output = None
    /\ Len(Unwrap(input).log) < MaxOps
    /\ input' = Some([builder |-> self,
                      log |-> Append(Unwrap(input).log, [op |-> op, name |-> name, value |-> value])])
    /\ UNCHANGED <<ConnectionVars, output>>

AddHeader(header_name, header_value) ==
    BuilderCall(add_header(Unwrap(input).builder, header_name, header_value),
                "add_header", header_name, header_value)

RemoveHeader(header_name) ==
    BuilderCall(remove_header(Unwrap(input).builder, header_name),
                "remove_header", header_name, <<>>)

AddSubprotocol(subprotocol) ==
    BuilderCall(add_subprotocol(Unwrap(input).builder, subprotocol),
                "add_subprotocol", subprotocol, <<>>)

RemoveSubprotocol(subprotocol) ==
    BuilderCall(remove_subprotocol(Unwrap(input).builder, subprotocol),
                "remove_subprotocol", subprotocol, <<>>)

\* connect() builds the Handshake out of the builder's lists and sends its
\* request (builder.rs:105-110), here to ws://h/
SendRequest ==
    /\ IsSome(input) /\ output = None
    /\ output' = Some(send_request(Handshake_new([host |-> <<104>>, path |-> <<47>>],
                                                 Unwrap(input).builder.additional_handshake_headers,
                                                 Unwrap(input).builder.subprotocols,
                                                 SampleKey)))
    /\ UNCHANGED <<ConnectionVars, input>>

NextBuilder ==
    \/ \E n \in HeaderNames, v \in HeaderValues : AddHeader(n, v)
    \/ \E n \in HeaderNames : RemoveHeader(n)
    \/ \E p \in {str_chat, str_mqtt} : AddSubprotocol(p)
    \/ \E p \in {str_chat, str_mqtt} : RemoveSubprotocol(p)
    \/ SendRequest

SpecBuilder == InitBuilder /\ [][NextBuilder]_vars

(***************************************************************************)
(* WebSocketBuilder::connect (builder.rs:64-118).  A URL is kept as the     *)
(* parts Url::parse yields (scheme, host, port); env holds what the network *)
(* does: the outcome of the name resolution, of the TCP and TLS connections,*)
(* of writing the request and of the final shutdown, and the bytes of the   *)
(* server's response.  trace lists the network operations connect performs, *)
(* oldest first.                                                            *)
(***************************************************************************)
ConnectResult(res, trace, hs) == [res |-> res, trace |-> trace, handshake |-> hs]

\* Url::port_or_known_default (parsed_addr.rs:24-26)
port_or_known_default(url) ==
    IF IsSome(url.port) THEN url.port
    ELSE CASE url.scheme \in {"ws", "http"} -> Some(80)
           [] url.scheme \in {"wss", "https"} -> Some(443)
           [] url.scheme = "ftp" -> Some(21)
           [] OTHER -> None

\* ParsedAddr::try_from (parsed_addr.rs:19-38)
ParsedAddr_try_from(url, env) ==
    IF ~url.parses THEN [res |-> "ParseError", trace |-> <<>>]
    ELSE IF url.host = None THEN [res |-> "HostError", trace |-> <<>>]
    ELSE IF port_or_known_default(url) = None THEN [res |-> "PortError", trace |-> <<>>]
    ELSE IF env.resolve # "Ok" THEN [res |-> env.resolve, trace |-> <<"resolve">>]
    ELSE [res |-> "Ok", trace |-> <<"resolve">>]

\* builder.rs:104-117: the opening handshake on the connected stream
connect_handshake(self, env, trace) ==
    IF env.write # "Ok"
    THEN ConnectResult("WriteError", Append(trace, "write_request"), None)
    ELSE LET t1 == trace \o <<"write_request", "read_response">>
             hs == check_response(self, env.response)
         IN  IF hs.res = "Ok" THEN ConnectResult("Ok", t1, Some(hs))
             ELSE IF env.shutdown # "Ok"
             THEN ConnectResult("ShutdownError", Append(t1, "shutdown"), None)
             ELSE ConnectResult(hs.res, Append(t1, "shutdown"), Some(hs))

connect(self, url, env) ==
    LET parsed_addr == ParsedAddr_try_from(url, env) IN
    IF parsed_addr.res # "Ok" THEN ConnectResult(parsed_addr.res, parsed_addr.trace, None)
    ELSE LET t1 == Append(parsed_addr.trace, "tcp_connect") IN
         IF env.tcp # "Ok" THEN ConnectResult("TcpConnectionError", t1, None)
         ELSE CASE url.scheme = "ws" -> connect_handshake(self, env, t1)
                [] url.scheme = "wss" ->
                     IF env.tls_build # "Ok" THEN ConnectResult("TlsBuilderError", t1, None)
                     ELSE IF env.tls # "Ok"
                     THEN ConnectResult("TlsConnectionError", Append(t1, "tls_connect"), None)
                     ELSE connect_handshake(self, env, Append(t1, "tls_connect"))
                [] OTHER -> ConnectResult("SchemeError", t1, None)

Urls ==
    [parses : {TRUE}, scheme : {"ws", "wss", "http", "ftp", "foo"},
     host : {Some("echo.websocket.org")}, port : {None, Some(8080)}]
        \cup { [parses |-> FALSE, scheme |-> "ws", host |-> None, port |-> None],
               [parses |-> TRUE, scheme |-> "data", host |-> None, port |-> None] }

\* the responses a server gives to the handshake of a client with the key
\* SampleKey that offers the subprotocol chat
ConnectResponses ==
    { <<>>,
      str_StatusLine101 \o CRLF
          \o HeaderLines(<< <<str_Upgrade, str_websocket>>, <<str_Connection, str_Upgrade>>,
                            <<str_Sec_WebSocket_Accept, SampleKeyAccept>> >>) \o CRLF,
      str_StatusLine101 \o CRLF
          \o HeaderLines(<< <<str_Upgrade, str_websocket>>, <<str_Connection, str_Upgrade>>,
                            <<str_Sec_WebSocket_Accept, ZeroKeyAccept>> >>) \o CRLF,
      str_StatusLine400 \o CRLF
          \o HeaderLines(<< <<str_Content_Length, str_3>> >>) \o CRLF \o str_abc,
      str_StatusLine400 \o CRLF
          \o HeaderLines(<< <<str_Content_Length, str_5>> >>) \o CRLF \o str_abc }

Environments ==
    [resolve : {"Ok", "SocketAddrError", "ResolutionError"},
     tcp : {"Ok", "TcpConnectionError"},
     tls_build : {"Ok", "TlsBuilderError"},
     tls : {"Ok", "TlsConnectionError"},
     write : {"Ok", "WriteError"},
     response : ConnectResponses,
     shutdown : {"Ok", "ShutdownError"}]

ConnectInputs ==
    { [fn |-> "connect", self |-> [key |-> SampleKey, subprotocols |-> <<str_chat>>],
       url |-> url, env |-> env] : url \in Urls, env \in Environments }

InitConnect ==
    /\ InitConnection
    /\ input \in { Some(x) : x \in ConnectInputs }
    /\ output = None

Connect ==
    /\ IsSome(input) /\ output = None
    /\ Unwrap(input).fn = "connect"
    /\ output' = Some(connect(Unwrap(input).self, Unwrap(input).url, Unwrap(input).env))
    /\ UNCHANGED <<ConnectionVars, input>>

NextConnect == Connect

SpecConnect == InitConnect /\ [][NextConnect]_vars

(***************************************************************************)
(* The unsplit WebSocket (mod.rs:107-253).  s is its state: shutdown,      *)
(* last_frame_type and its stream (wshut, wire).                           *)
(***************************************************************************)
\* a variant of send() that does not look at the shutdown flag
WebSocket_send_Unchecked(s, frame, by) == Frame_send(s, frame, by)

WebSocket_send(s, frame, by) ==
    IF s.shutdown
    THEN [s |-> s, res |-> "WebSocketClosedError"]
    ELSE Frame_send(s, frame, by)

WebSocket_shutdown(s) ==
    [s |-> [s EXCEPT !.shutdown = TRUE, !.wshut = TRUE], res |-> "Ok"]

\* a variant of receive() that returns a Ping without sending the Pong
WebSocket_receive_NoPong(s, b) ==
    IF s.shutdown
    THEN [s |-> s, res |-> "WebSocketClosedError", frame |-> None]
    ELSE
    LET d == read_from_websocket(b, s.last_frame_type) IN
    IF d.res # "Ok" THEN [s |-> s, res |-> d.res, frame |-> None]
    ELSE
    LET frame == Unwrap(d.frame)
        s1 == [s EXCEPT !.last_frame_type =
                 IF frame.type \in {"Text", "Binary"} THEN frame.type ELSE @]
    IN  CASE frame.type = "Close" ->
                LET r == WebSocket_send(s1, EchoClose(frame), "echo") IN
                IF r.res # "Ok"
                THEN [s |-> r.s, res |-> r.res, frame |-> None]
                ELSE [s |-> WebSocket_shutdown(r.s).s, res |-> WebSocket_shutdown(r.s).res,
                      frame |-> d.frame]
          [] OTHER -> [s |-> s1, res |-> "Ok", frame |-> d.frame]

WebSocket_receive(s, b) ==
    IF s.shutdown
    THEN [s |-> s, res |-> "WebSocketClosedError", frame |-> None]
    ELSE
    LET d == read_from_websocket(b, s.last_frame_type) IN
    IF d.res # "Ok" THEN [s |-> s, res |-> d.res, frame |-> None]
    ELSE
    LET frame == Unwrap(d.frame)
        s1 == [s EXCEPT !.last_frame_type =
                 IF frame.type \in {"Text", "Binary"} THEN frame.type ELSE @]
    IN  CASE frame.type = "Ping" ->
                LET r == WebSocket_send(s1, Pong(frame.payload), "pong") IN
                IF r.res # "Ok"
                THEN [s |-> r.s, res |-> r.res, frame |-> None]
                ELSE [s |-> r.s, res |-> "Ok", frame |-> d.frame]
          [] frame.type = "Close" ->
                LET r == WebSocket_send(s1, EchoClose(frame), "echo") IN
                IF r.res # "Ok"
                THEN [s |-> r.s, res |-> r.res, frame |-> None]
                ELSE [s |-> WebSocket_shutdown(r.s).s, res |-> WebSocket_shutdown(r.s).res,
                      frame |-> d.frame]
          [] OTHER -> [s |-> s1, res |-> "Ok", frame |-> d.frame]

\* b: the bytes the peer sends next, read by close()'s receive()
WebSocket_close(s, payload, b) ==
    IF s.shutdown
    THEN [s |-> s, res |-> "WebSocketClosedError", frame |-> None]
    ELSE
    LET r == WebSocket_send(s, Close(payload), "user") IN
    IF r.res # "Ok" THEN [s |-> r.s, res |-> r.res, frame |-> None]
    ELSE
    LET resp == WebSocket_receive(r.s, b) IN
    IF resp.res # "Ok" THEN resp
    ELSE [s |-> WebSocket_shutdown(resp.s).s, res |-> WebSocket_shutdown(resp.s).res,
          frame |-> resp.frame]

US == [shutdown |-> shutdown, wshut |-> wshut, wire |-> wire, raw |-> raw, rng |-> rng,
       last_frame_type |-> last_frame_type]

SetUS(s) ==
    /\ shutdown' = s.shutdown
    /\ wshut' = s.wshut
    /\ wire' = s.wire
    /\ raw' = s.raw
    /\ rng' = s.rng
    /\ last_frame_type' = s.last_frame_type

USend(frame) ==
    /\ ncalls < MaxCalls
    /\ LET r == WebSocket_send(US, frame, "user") IN
        /\ SetUS(r.s)
        /\ wret' = [op |-> "send", arg |-> Some(frame), res |-> r.res, frame |-> None]
    /\ ncalls' = ncalls + 1
    /\ UNCHANGED <<sent_closed, events, wpc, wcall, rret, pings, closes, nrecv, input, output>>

UReceive(b) ==
    /\ nrecv < MaxRecv
    /\ LET d == WebSocket_receive(US, b) IN
        /\ SetUS(d.s)
        /\ rret' = [op |-> "receive", input |-> b, res |-> d.res, frame |-> d.frame]
        /\ pings' = PingsAfter(d)
        /\ closes' = ClosesAfter(d)
    /\ nrecv' = nrecv + 1
    /\ UNCHANGED <<sent_closed, events, wpc, wcall, wret, ncalls, input, output>>

UClose(payload, b) ==
    /\ ncalls < MaxCalls
    /\ LET d == WebSocket_close(US, payload, b) IN
        /\ SetUS(d.s)
        /\ wret' = [op |-> "close", arg |-> Some(Close(payload)), res |-> d.res,
                    frame |-> d.frame]
        /\ pings' = PingsAfter(d)
        /\ closes' = ClosesAfter(d)
    /\ ncalls' = ncalls + 1
    /\ UNCHANGED <<sent_closed, events, wpc, wcall, rret, nrecv, input, output>>

UShutdown ==
    /\ ncalls < MaxCalls
    /\ LET r == WebSocket_shutdown(US) IN
        /\ SetUS(r.s)
        /\ wret' = [op |-> "shutdown", arg |-> None, res |-> r.res, frame |-> None]
    /\ ncalls' = ncalls + 1
    /\ UNCHANGED <<sent_closed, events, wpc, wcall, rret, pings, closes, nrecv, input, output>>

NextUnsplit ==
    \/ \E frame \in UserFrames : USend(frame)
    \/ \E b \in PeerWire : UReceive(b)
    \/ \E payload \in ClosePayloads, b \in PeerWire : UClose(payload, b)
    \/ UShutdown

SpecUnsplit == Init /\ [][NextUnsplit]_vars

(***************************************************************************)
(* Properties.                                                             *)
(***************************************************************************)
WireBy(tag) == SelectSeq(wire, LAMBDA e : e.by = tag)

\* the payloads of the Pongs written in reaction to a Ping, oldest first
AutoPongs == [i \in 1..Len(WireBy("pong")) |-> WireBy("pong")[i].frame.payload]

\* the payloads of the Pongs still queued in the channel
QueuedPongEvents == SelectSeq(events, LAMBDA e : e.kind = "SendPongFrame")
QueuedPongs == [i \in 1..Len(QueuedPongEvents) |-> QueuedPongEvents[i].frame.payload]

\* the application's own Close frame is on the wire
UserCloseSent ==
    \E i \in 1..Len(wire) : wire[i].by = "user" /\ wire[i].frame.type = "Close"

\* this step completes a send() or close() of the write half
SendReturns == wpc = "flush" /\ wpc' = "idle" /\ wcall.op \in {"send", "close"}

\* this step is a call of shutdown() on the write half
ShutdownReturns == ncalls' = ncalls + 1 /\ wret'.op = "shutdown"

\* this step is an iteration of flush()'s loop that takes a
\* SendCloseFrameAndShutdown event off the channel
DrainsCloseEvent ==
    /\ wpc = "flush"
    /\ events # <<>>
    /\ Head(events).kind = "SendCloseFrameAndShutdown"
    /\ events' = Tail(events)

EchoWritten == wire' = Append(wire, [frame |-> Head(events).frame, by |-> "echo"])

RECURSIVE IsSubseq(_, _)
IsSubseq(a, b) ==
    IF a = <<>> THEN TRUE
    ELSE IF b = <<>> THEN FALSE
    ELSE IF Head(a) = Head(b)
    THEN IsSubseq(Tail(a), Tail(b)) \/ IsSubseq(a, Tail(b))
    ELSE IsSubseq(a, Tail(b))

\* C1 (as claimed): once the write half has transmitted the application's
\* Close frame, sent_closed is true, and every send() or close() completing
\* later fails with WebSocketClosed and writes nothing.
C1_CloseSentClosesWriteHalf ==
    [][ /\ UserCloseSent' => sent_closed'
        /\ (UserCloseSent /\ SendReturns) =>
              (wret'.res = "WebSocketClosedError" /\ wire' = wire) ]_vars

\* C2 (as claimed): shutdown() writes no frame, half-closes the stream and sets
\* sent_closed; every send() completing after a shutdown fails with
\* WebSocketClosed.
C2_ShutdownThenSendClosed ==
    [][ /\ ShutdownReturns => (wire' = wire /\ wshut' /\ sent_closed')
        /\ (wshut /\ SendReturns) => wret'.res = "WebSocketClosedError" ]_vars

Fits(p) == Len(Materialize(Ping(p))) <= ControlMax
Fitting(ps) == SelectSeq(ps, Fits)

C4_PongWrittenBeforeReturn ==
    /\ Len(AutoPongs) >= Len(pings)
    /\ \A i \in 1..Len(pings) : AutoPongs[i] = pings[i]

\* C4 witness: receive() has just returned Ping(AB CD) and the Pong is the
\* last frame on the stream
C4_Witness ==
    /\ rret.op = "receive"
    /\ rret.res = "Ok"
    /\ rret.frame = Some(Ping(Some(<<171, 205>>)))
    /\ wire # <<>>
    /\ wire[Len(wire)] = [frame |-> Pong(Some(<<171, 205>>)), by |-> "pong"]

\* C5 (as claimed): when the application's Close has been sent and flush()
\* takes the SendCloseFrameAndShutdown event of the peer's echo, it finds
\* sent_closed true, writes the echoed Close and shuts the stream down.
C5_LocalCloseCompletes ==
    [][ (DrainsCloseEvent /\ UserCloseSent /\ ~wshut) =>
            (sent_closed /\ EchoWritten /\ wshut') ]_vars

\* C6 (as claimed): when flush() takes the SendCloseFrameAndShutdown event
\* while sent_closed is false, it writes the echoed Close and sets
\* sent_closed, but does not shut the stream down.
C6_RemoteCloseEchoed ==
    [][ (DrainsCloseEvent /\ ~sent_closed /\ ~shutdown) =>
            (EchoWritten /\ sent_closed' /\ ~wshut') ]_vars

\* C7 (as claimed): once receive() has returned the peer's Close while the
\* application has sent none, a send() of a Text or Binary frame fails, and
\* the flush that takes the event writes the echoed Close.
C7_ClosingRemoteSendFails ==
    [][ /\ (closes # <<>> /\ ~UserCloseSent /\ SendReturns
              /\ Unwrap(wcall.arg).type \in {"Text", "Binary"}) => wret'.res # "Ok"
        /\ (DrainsCloseEvent /\ ~UserCloseSent /\ ~wshut) => EchoWritten ]_vars

\* C8 (as claimed): once sent_closed is true or the stream has been shut down
\* no step of the write half writes a frame, and the shutdown flag is true
\* exactly when the stream has been half-closed for writes.
C8_NoWriteAfterClose ==
    [][ /\ (sent_closed \/ wshut) => wire' = wire
        /\ shutdown' <=> wshut' ]_vars

\* this step is a call of close() on the unsplit connection
UCloseReturns == ncalls' = ncalls + 1 /\ wret'.op = "close"

\* C9 (as claimed): close() on the unsplit connection, when it returns Ok,
\* returns the peer's echoed Close frame and has shut the stream down, after
\* writing its Close frame; on a connection already shut down it fails with
\* WebSocketClosed and writes nothing.
C9_CloseReturnsEcho ==
    [][ UCloseReturns =>
          /\ wret'.res = "Ok" =>
                /\ IsSome(wret'.frame)
                /\ Unwrap(wret'.frame).type = "Close"
                /\ wshut'
                /\ Len(wire') > Len(wire)
                /\ wire'[Len(wire) + 1] = [frame |-> Unwrap(wret'.arg), by |-> "user"]
          /\ shutdown => (wret'.res = "WebSocketClosedError" /\ wire' = wire) ]_vars

\* the peer's bytes are a Close frame carrying the status code
IsCloseWithCode(b, code) ==
    LET d == read_from_websocket(b, "Control") IN
    /\ d.res = "Ok"
    /\ Unwrap(d.frame).type = "Close"
    /\ IsSome(Unwrap(d.frame).payload)
    /\ Unwrap(Unwrap(d.frame).payload)[1] = code

\* C10 (as claimed): after close(Some((code, reason))) has returned Ok, a
\* receive() to which the peer delivers a Close frame with that code
\* succeeds and returns a Close frame with status code equal to code.
C10_EchoReadableAfterClose ==
    [][ ( /\ wret.op = "close"
          /\ wret.res = "Ok"
          /\ IsSome(Unwrap(wret.arg).payload)
          /\ nrecv' = nrecv + 1
          /\ rret'.op = "receive"
          /\ IsCloseWithCode(rret'.input, Unwrap(Unwrap(wret.arg).payload)[1]) )
        => ( /\ rret'.res = "Ok"
             /\ Unwrap(rret'.frame).type = "Close"
             /\ Unwrap(Unwrap(rret'.frame).payload)[1]
                    = Unwrap(Unwrap(wret.arg).payload)[1] ) ]_vars

\* this step is a call of send() or close() on the unsplit connection
UWriteCallReturns == ncalls' = ncalls + 1 /\ wret'.op \in {"send", "close"}

\* this step is a call of receive() on the unsplit connection
UReceiveReturns == nrecv' = nrecv + 1 /\ rret'.op = "receive"

\* C11: on the unsplit connection, once receive() has returned a Close frame
\* the echoed Close (same status code, empty reason) is the one echo on the
\* stream and the connection is shut down; every later send(), close() and
\* receive() fails with WebSocketClosed and writes nothing.
C11_ReceivedCloseClosesConnection ==
    [][ /\ closes' # <<>> =>
              /\ shutdown' /\ wshut'
              /\ WireBy("echo")' = <<[frame |-> EchoClose(closes'[1]), by |-> "echo"]>>
        /\ closes # <<>> =>
              /\ wire' = wire
              /\ UWriteCallReturns => wret'.res = "WebSocketClosedError"
              /\ UReceiveReturns => rret'.res = "WebSocketClosedError" ]_vars

\* C11 witness: receive() returned the peer's Close(1000, "bye"), the echo
\* Close(1000, "") was written, and a later send() failed with WebSocketClosed
C11_Witness ==
    /\ rret.op = "receive"
    /\ rret.frame = Some(Close(Some(<<1000, <<98, 121, 101>>>>)))
    /\ wire = <<[frame |-> Close(Some(<<1000, <<>>>>)), by |-> "echo"]>>
    /\ wret.op = "send"
    /\ wret.res = "WebSocketClosedError"

(***************************************************************************)
(* The fields of the frame the peer's bytes b carry (RFC 6455 section 5.2).*)
(***************************************************************************)
WireFin(b) == b[1] >= 128
WireOpcode(b) == b[1] % 16
WireMasked(b) == b[2] >= 128
WireHeaderLen(b) ==
    (IF b[2] % 128 <= 125 THEN 2 ELSE IF b[2] % 128 = 126 THEN 4 ELSE 10)
        + (IF WireMasked(b) THEN 4 ELSE 0)
WirePayload(b) == SubSeq(b, WireHeaderLen(b) + 1, Len(b))

\* this step is a receive_without_handling() that read the bytes b
Decodes(b) ==
    nrecv' = nrecv + 1 /\ rret'.op = "receive_without_handling" /\ rret'.input = b

\* C12 (as claimed): an unmasked continuation frame decoded while the context
\* is Control fails with InvalidFrame; otherwise it is decoded as a frame of
\* the context's type with continuation = true and the observed fin bit.
C12_ContinuationInheritsType ==
    [][ \A b \in DecodeWire :
          (Decodes(b) /\ WireOpcode(b) = 0 /\ ~WireMasked(b)) =>
             IF last_frame_type = "Control"
             THEN rret'.res = "InvalidFrameError"
             ELSE /\ rret'.res = "Ok"
                  /\ Unwrap(rret'.frame).type = last_frame_type
                  /\ Unwrap(rret'.frame).continuation
                  /\ Unwrap(rret'.frame).fin = WireFin(b) ]_vars

\* C12 (amended): an unmasked continuation frame decoded while the context
\* is Control fails with InvalidFrame; so does one decoded while the context
\* is Text whose payload is not valid UTF-8; otherwise it is decoded as a
\* frame of the context's type carrying the payload, with continuation = true
\* and the observed fin bit.  The context is Control until a Text or Binary
\* frame (continuation or not) has been decoded successfully, and is then the
\* type of the last one.
C12_ContinuationInheritsTypeIfUtf8 ==
    [][ \A b \in DecodeWire :
        /\ Decodes(b) =>
             last_frame_type' =
                IF rret'.res = "Ok" /\ Unwrap(rret'.frame).type \in {"Text", "Binary"}
                THEN Unwrap(rret'.frame).type
                ELSE last_frame_type
        /\ (Decodes(b) /\ WireOpcode(b) = 0 /\ ~WireMasked(b)) =>
             IF \/ last_frame_type = "Control"
                \/ last_frame_type = "Text" /\ ~from_utf8_ok(WirePayload(b))
             THEN rret'.res = "InvalidFrameError" /\ last_frame_type' = last_frame_type
             ELSE /\ rret'.res = "Ok"
                  /\ Unwrap(rret'.frame).type = last_frame_type
                  /\ Unwrap(rret'.frame).payload = WirePayload(b)
                  /\ Unwrap(rret'.frame).continuation
                  /\ Unwrap(rret'.frame).fin = WireFin(b)
                  /\ last_frame_type' = last_frame_type ]_vars

\* C12 witness: after a Binary frame, a continuation frame without the fin
\* bit was decoded as Binary { continuation: true, fin: false }
C12_Witness ==
    /\ last_frame_type = "Binary"
    /\ rret.input = PeerFrame(0, 0, 0, 7, <<255>>)
    /\ rret.res = "Ok"
    /\ rret.frame = Some(Binary(<<255>>, TRUE, FALSE))

\* C13: decoding a frame whose MASK bit is 1 fails with ReceivedMaskedFrame
\* whatever its opcode, fin bit and length form; no frame is returned and the
\* read half's context and channel are left as they were.
C13_MaskedFrameRejected ==
    [][ \A b \in DecodeWire :
          (Decodes(b) /\ WireMasked(b)) =>
              /\ rret'.res = "ReceivedMaskedFrameError"
              /\ rret'.frame = None
              /\ last_frame_type' = last_frame_type
              /\ events' = events ]_vars

\* C13 witness: a masked Ping in the 16-bit length form was rejected after a
\* Text frame had been decoded
C13_Witness ==
    /\ last_frame_type = "Text"
    /\ rret.input = PeerFrame(1, 9, 1, 16, <<97>>)
    /\ rret.res = "ReceivedMaskedFrameError"
    /\ rret.frame = None

\* C15 (as claimed): decoding an unmasked Close, Ping or Pong frame whose
\* payload is longer than 125 bytes (announced in the 16-bit or 64-bit form)
\* never succeeds.
C15_LongControlFrameRejected ==
    [][ \A b \in DecodeWire :
          ( /\ Decodes(b)
            /\ ~WireMasked(b)
            /\ WireOpcode(b) \in {8, 9, 10}
            /\ Len(WirePayload(b)) > ControlMax ) => rret'.res # "Ok" ]_vars

\* this step ends a send() or close() of the write half whose flush found no
\* event: the frame reaches Frame::send unless the write half is closed
SendsFrame ==
    /\ wpc = "flush" /\ events = <<>> /\ wpc' = "idle"
    /\ wcall.op \in {"send", "close"}
    /\ ~sent_closed /\ ~shutdown

\* C14: on a write half that is not closed, sending a Close, Ping or Pong
\* frame whose payload as built by Frame::send (for Close: the 2 status bytes
\* and the reason) is longer than 125 bytes fails with ControlFrameTooLarge,
\* writes no byte and leaves sent_closed, shutdown, the stream and the RNG as
\* they were; a control frame of at most 125 bytes, and a data frame of any
\* length, is not refused with that error.
C14_ControlFrameTooLarge ==
    [][ SendsFrame =>
          LET frame == Unwrap(wcall.arg) IN
          IF is_control(frame) /\ Len(Materialize(frame)) > ControlMax
          THEN /\ wret'.res = "ControlFrameTooLargeError"
               /\ raw' = raw /\ wire' = wire /\ wshut' = wshut
               /\ sent_closed' = sent_closed /\ shutdown' = shutdown
               /\ rng' = rng
          ELSE wret'.res # "ControlFrameTooLargeError" ]_vars

\* C14 witness: after one frame was written, close(1000, reason of 124 bytes)
\* was refused with ControlFrameTooLarge
C14_Witness ==
    /\ wret.op = "close"
    /\ wret.arg = Some(Close(Some(<<1000, Zeros(ControlMax - 1)>>)))
    /\ wret.res = "ControlFrameTooLargeError"
    /\ Len(raw) = 1
    /\ ~sent_closed /\ ~wshut

\* the length a length field announces (RFC 6455 section 5.2)
FieldLength(f) ==
    IF f[1] <= 125 THEN f[1] ELSE from_be_bytes(Tail(f))

FieldWellFormed(f) ==
    \/ Len(f) = 1 /\ f[1] <= 125
    \/ Len(f) = 3 /\ f[1] = 126
    \/ Len(f) = 9 /\ f[1] = 127

\* the result of the function applied to an input of the given kind
Applied(fn) == IsSome(input) /\ IsSome(output) /\ Unwrap(input).fn = fn

\* C16 (as claimed): the length field built for a payload of n bytes decodes
\* back to n and has the shortest form: the 7-bit form for n <= 125, 126 and
\* two bytes for 126 <= n <= 65535, 127 and eight bytes for n >= 65536.
C16_ShortestLengthForm ==
    Applied("payload_len_data") =>
        LET n == Unwrap(input).n
            f == Unwrap(output)
        IN  /\ FieldWellFormed(f)
            /\ FieldLength(f) = n
            /\ Len(f) = (IF n <= 125 THEN 1 ELSE IF n <= 65535 THEN 3 ELSE 9)

\* a XOR b on bytes, bit by bit
BitXor(a, b) ==
    LET bit(x, k) == (x \div (2 ^ k)) % 2
        sum[k \in 0..8] ==
            IF k = 8 THEN 0 ELSE ((bit(a, k) + bit(b, k)) % 2) * (2 ^ k) + sum[k + 1]
    IN  sum[0]

\* C17: in the frame built for payload P and masking key K, the last Len(P)
\* bytes are P[i] XOR K[i mod 4] (i counted from 0), the four bytes before
\* them are K, in front of K stand only the two header bytes and the
\* extended length, and XOR-ing the written payload with K again yields P.
C17_MaskingRoundTrip ==
    Applied("raw_frame") =>
        LET P == Materialize(Unwrap(input).frame)
            K == Unwrap(input).masking_key
            r == Unwrap(output)
            h == Len(r) - Len(P) - 4
            written == SubSeq(r, h + 5, Len(r))
        IN  /\ h = 1 + Len(payload_len_data(Len(P)))
            /\ SubSeq(r, h + 1, h + 4) = K
            /\ \A i \in 1..Len(P) : written[i] = BitXor(P[i], K[((i - 1) % 4) + 1])
            /\ [i \in 1..Len(P) |-> BitXor(written[i], K[((i - 1) % 4) + 1])] = P

\* C17 witness: the Text frame "abcde" was masked with the key 01 02 04 08
C17_Witness ==
    /\ Applied("raw_frame")
    /\ Unwrap(input).frame = Text(<<97, 98, 99, 100, 101>>, FALSE, TRUE)
    /\ Unwrap(input).masking_key = <<1, 2, 4, 8>>
    /\ Unwrap(output) = <<129, 133, 1, 2, 4, 8, 96, 96, 103, 108, 100>>

\* C18: every frame written to the stream, by a send() of the application,
\* as the Pong answering a Ping or as the echo of a Close, has the MASK bit
\* set, the three reserved bits zero and an opcode among 0x0, 0x1, 0x2, 0x8,
\* 0x9 and 0xA.
C18_ClientFramesMasked ==
    /\ Len(raw) = Len(wire)
    /\ \A i \in 1..Len(raw) :
          /\ raw[i][2] >= 128
          /\ (raw[i][1] \div 16) % 8 = 0
          /\ raw[i][1] % 16 \in {0, 1, 2, 8, 9, 10}

\* C18 witness: a continuation frame of the application, a Pong answering a
\* Ping and the echo of a Close have been written
C18_Witness ==
    /\ Len(raw) = 3
    /\ [i \in 1..3 |-> wire[i].by] = <<"user", "pong", "echo">>
    /\ [i \in 1..3 |-> raw[i][1]] = <<0, 138, 136>>

\* ASCII lower case of a text
Lower(str) ==
    [i \in 1..Len(str) |-> IF str[i] \in 65..90 THEN str[i] + 32 ELSE str[i]]

\* the headers of the response with the given (lower-case) name, in the
\* order the server sent them
Sent(name) == SelectSeq(Unwrap(input).headers, LAMBDA h : Lower(h[1]) = name)

IsNumber(str) == str # <<>> /\ \A i \in 1..Len(str) : str[i] \in 48..57

Rejected == Applied("check_response") /\ Unwrap(input).status_code # str_101

\* the stream delivers as many bytes after the blank line as the
\* Content-Length header announces
BodyArrives ==
    LET length == Sent(str_content_length) IN
    (length # <<>> /\ IsNumber(length[1][2])) =>
        Len(Unwrap(input).body) >= decimal(length[1][2])

Upgraded == Applied("check_response") /\ Unwrap(input).status_code = str_101

\* the subprotocols the client offered
Offered ==
    { Unwrap(input).self.subprotocols[i] : i \in 1..Len(Unwrap(input).self.subprotocols) }

\* base64(SHA1(key || GUID)) for the client's key
ExpectedAccept ==
    IF Unwrap(input).self.key = SampleKey THEN SampleKeyAccept ELSE ZeroKeyAccept

\* some header of that name carries the value
SomeSent(name, value) ==
    \E i \in 1..Len(Sent(name)) : Sent(name)[i][2] = value

\* C20 (as claimed): a 101 response is accepted if and only if an Upgrade
\* header equals websocket, a Connection header equals Upgrade (names matched
\* case-insensitively), there is no Sec-WebSocket-Extensions header, the
\* Sec-WebSocket-Protocol header is absent or names an offered subprotocol and
\* a Sec-WebSocket-Accept header equals base64(SHA1(key || GUID)); every other
\* 101 response fails with InvalidHandshake.
C20_UpgradeAcceptedIff ==
    Upgraded =>
        /\ Unwrap(output).res \in {"Ok", "InvalidHandshakeError"}
        /\ Unwrap(output).res = "Ok" <=>
              /\ SomeSent(str_upgrade, str_websocket)
              /\ SomeSent(str_connection, str_Upgrade)
              /\ Sent(str_sec_websocket_extensions) = <<>>
              /\ \/ Sent(str_sec_websocket_protocol) = <<>>
                 \/ \E s \in Offered : SomeSent(str_sec_websocket_protocol, s)
              /\ SomeSent(str_sec_websocket_accept, ExpectedAccept)

\* the first header of that name exists and its value satisfies Test
FirstSent(name, Test(_)) == Sent(name) # <<>> /\ Test(Sent(name)[1][2])

\* C20 (amended): a 101 response is accepted if and only if the first Upgrade
\* header has the value websocket and the first Connection header the value
\* Upgrade, both compared without regard to case, there is no
\* Sec-WebSocket-Extensions header, the first Sec-WebSocket-Protocol header,
\* if any, has exactly the value of an offered subprotocol, and the first
\* Sec-WebSocket-Accept header is byte-equal to base64(SHA1(key || GUID));
\* header names are matched without regard to case throughout.  Every other
\* 101 response fails with InvalidHandshake.  An accepted response leaves its
\* header list and the named subprotocol in the connection, and the bytes
\* after the blank line unread.
C20_UpgradeAcceptedIffFirstHeaders ==
    Upgraded =>
        LET r == Unwrap(output)
            protocol == Sent(str_sec_websocket_protocol)
        IN  /\ r.res \in {"Ok", "InvalidHandshakeError"}
            /\ r.res = "Ok" <=>
                  /\ FirstSent(str_upgrade, LAMBDA v : Lower(v) = str_websocket)
                  /\ FirstSent(str_connection, LAMBDA v : Lower(v) = str_upgrade)
                  /\ Sent(str_sec_websocket_extensions) = <<>>
                  /\ protocol = <<>> \/ protocol[1][2] \in Offered
                  /\ FirstSent(str_sec_websocket_accept, LAMBDA v : v = ExpectedAccept)
            /\ r.res = "Ok" =>
                  /\ r.handshake_response_headers = Some(Unwrap(input).headers)
                  /\ r.accepted_subprotocol =
                        (IF protocol = <<>> THEN None ELSE Some(protocol[1][2]))
                  /\ r.rest = Unwrap(input).body

\* C20 witness: a 101 response with the headers upgrade: WebSocket,
\* CONNECTION: upgrade, Sec-WebSocket-Protocol: chat and the right accept key
\* was accepted by a client that offered superchat and chat
C20_Witness ==
    /\ Upgraded
    /\ Unwrap(input).self.subprotocols = <<str_superchat, str_chat>>
    /\ Sent(str_upgrade) = << <<str_upgrade, str_WebSocket>> >>
    /\ Sent(str_connection) = << <<str_CONNECTION, str_upgrade>> >>
    /\ Unwrap(input).body = str_abc
    /\ Unwrap(output).res = "Ok"
    /\ Unwrap(output).accepted_subprotocol = Some(str_chat)

\* a 101 response passes the checks made before the subprotocol is looked at
\* (handshake.rs:151-180)
ReachesNegotiation ==
    /\ Upgraded
    /\ FirstSent(str_upgrade, LAMBDA v : Lower(v) = str_websocket)
    /\ FirstSent(str_connection, LAMBDA v : Lower(v) = str_upgrade)
    /\ Sent(str_sec_websocket_extensions) = <<>>

\* C21: let S be the value of the (first) Sec-WebSocket-Protocol header of a
\* 101 response.  If S is present and the client offered nothing, or S is not
\* in the offered list, the handshake fails with InvalidHandshake and no
\* subprotocol is accepted; if S is in the offered list, the subprotocol
\* accepted by a handshake that gets as far as the negotiation, and so by
\* every handshake that succeeds, is S; if no such header is present the
\* accepted subprotocol is absent whatever the client offered.  After every
\* response the accepted subprotocol is absent or a member of the offered
\* list.
C21_SubprotocolNegotiation ==
    Applied("check_response") =>
        LET r == Unwrap(output)
            named == Sent(str_sec_websocket_protocol)
            S == named[1][2]
        IN  /\ r.accepted_subprotocol = None \/ Unwrap(r.accepted_subprotocol) \in Offered
            /\ named = <<>> => r.accepted_subprotocol = None
            /\ (Upgraded /\ named # <<>> /\ S \notin Offered) =>
                  (r.res = "InvalidHandshakeError" /\ r.accepted_subprotocol = None)
            /\ (ReachesNegotiation /\ named # <<>> /\ S \in Offered) =>
                  r.accepted_subprotocol = Some(S)
            /\ r.res = "Ok" =>
                  r.accepted_subprotocol = (IF named = <<>> THEN None ELSE Some(S))

\* C21 witness: a client that offered chat alone got a 101 response naming
\* chat and the handshake succeeded with chat as the accepted subprotocol
C21_Witness ==
    /\ Upgraded
    /\ Unwrap(input).self.key = ZeroKey
    /\ Unwrap(input).self.subprotocols = <<str_chat>>
    /\ Sent(str_sec_websocket_protocol) = << <<str_Sec_WebSocket_Protocol, str_chat>> >>
    /\ Unwrap(output).res = "Ok"
    /\ Unwrap(output).accepted_subprotocol = Some(str_chat)

\* the network operation is among those connect performed
Performed(op) ==
    \E i \in 1..Len(Unwrap(output).trace) : Unwrap(output).trace[i] = op

\* connect got as far as the opening handshake and the handshake failed:
\* writing the request failed, or the check of the response did
HandshakeFailure ==
    /\ Applied("connect")
    /\ Performed("write_request")
    /\ \/ Unwrap(input).env.write # "Ok"
       \/ check_response(Unwrap(input).self, Unwrap(input).env.response).res # "Ok"

\* the error of the failed handshake
HandshakeError ==
    IF Unwrap(input).env.write # "Ok" THEN "WriteError"
    ELSE check_response(Unwrap(input).self, Unwrap(input).env.response).res

\* C22 (as claimed): when the opening handshake fails inside connect(), on
\* writing the request or on reading or validating the response, and the
\* stream can be shut down, connect() shuts it down, as its last network
\* operation, and returns the handshake's error.
C22_HandshakeFailureShutsDown ==
    (HandshakeFailure /\ Unwrap(input).env.shutdown = "Ok") =>
        LET r == Unwrap(output) IN
        /\ r.trace # <<>> /\ r.trace[Len(r.trace)] = "shutdown"
        /\ r.res = HandshakeError

\* C23 (as claimed): connect() on a URL with a host whose scheme is neither
\* ws nor wss fails with the Scheme error and attempts no TCP connection.
C23_BadSchemeBeforeNetwork ==
    ( /\ Applied("connect")
      /\ Unwrap(input).url.parses
      /\ IsSome(Unwrap(input).url.host)
      /\ Unwrap(input).url.scheme \notin {"ws", "wss"} ) =>
        /\ Unwrap(output).res = "SchemeError"
        /\ ~Performed("tcp_connect")

\* C24: once shutdown() has returned Ok on the write half (the stream is
\* half-closed and sent_closed is true), a further shutdown() returns Ok,
\* writes nothing and leaves sent_closed, the shutdown flag and the stream as
\* they are; every send() and close() completing in that state fails and
\* writes nothing, with WebSocketClosed when its flush finds no event.
C24_ShutdownIdempotent ==
    [][ wshut =>
          /\ sent_closed
          /\ ShutdownReturns =>
                /\ wret'.res = "Ok"
                /\ sent_closed' = sent_closed /\ shutdown' = shutdown
                /\ wshut' /\ wire' = wire /\ raw' = raw
          /\ SendReturns =>
                /\ wret'.res # "Ok"
                /\ wire' = wire /\ raw' = raw
                /\ sent_closed' = sent_closed /\ shutdown' = shutdown /\ wshut'
                /\ events = <<>> => wret'.res = "WebSocketClosedError" ]_vars

\* C24 witness: after the first shutdown() and a second one, a send() of a
\* Text frame failed with WebSocketClosed and nothing was written
C24_Witness ==
    /\ ncalls = 2
    /\ wpc = "idle"
    /\ wret.op = "send"
    /\ Unwrap(wret.arg).type = "Text"
    /\ wret.res = "WebSocketClosedError"
    /\ sent_closed /\ ~shutdown /\ wshut
    /\ wire = <<>>

\* this step is an iteration of flush()'s loop: an event leaves the channel
TakesEvent == wpc = "flush" /\ events # <<>> /\ Len(events') = Len(events) - 1

\* C25: the channel keeps the events in the order receive() enqueued them
\* (an event is added at the end, the event flush() takes is the oldest, and
\* flush() acts on it, writing at most its frame, before it takes the next);
\* the Pongs written are replies to received Pings in the order the Pings
\* were received, none left out while the stream is open.  The event of a
\* Close is thus acted on after the events of the Pings received before it.
C25_EventsInOrder ==
    [][ /\ events' # events =>
              \/ TakesEvent /\ events' = Tail(events)
              \/ ~TakesEvent /\ Len(events') = Len(events) + 1
                    /\ SubSeq(events', 1, Len(events)) = events
        /\ TakesEvent =>
              \/ wire' = wire
              \/ wire' = Append(wire, [frame |-> Head(events).frame,
                                       by |-> IF Head(events).kind = "SendPongFrame"
                                              THEN "pong" ELSE "echo"])
        /\ IsSubseq(AutoPongs', pings')
        /\ ~wshut' => AutoPongs' = SubSeq(pings', 1, Len(AutoPongs')) ]_vars

\* C25 witness: the Pings AB CD and 07 were received in that order and
\* flush() has written the two Pongs in that order
C25_Witness ==
    /\ pings = <<Some(<<171, 205>>), Some(<<7>>)>>
    /\ AutoPongs = pings
    /\ events = <<>>

\* the frames written in reaction to a received frame, oldest first
Reactions == SelectSeq(wire, LAMBDA e : e.by \in {"pong", "echo"})

\* C26: in every interleaving of the two halves, a frame written in reaction
\* to a received frame is written by a step of the write half's flush loop
\* for an event that receive() enqueued on returning the Ping or Close
\* before that step; at every moment the Pongs written in reaction are no
\* more than the Pings receive() has returned, each carries the payload of
\* one of those Pings, and each echoed Close the status code of a Close
\* receive() has returned.
C26_ReactionAfterObservation ==
    [][ /\ Reactions' # Reactions =>
              /\ wpc = "flush" /\ nrecv' = nrecv /\ events # <<>>
              /\ Reactions' = Append(Reactions, Reactions'[Len(Reactions')])
              /\ Reactions'[Len(Reactions')].frame = Head(events).frame
              /\ Head(events).kind = "SendPongFrame" =>
                    \E j \in 1..Len(pings) : Pong(pings[j]) = Head(events).frame
              /\ Head(events).kind = "SendCloseFrameAndShutdown" =>
                    \E j \in 1..Len(closes) : EchoClose(closes[j]) = Head(events).frame
        /\ Len(AutoPongs') <= Len(pings')
        /\ \A i \in 1..Len(AutoPongs') : \E j \in 1..Len(pings') : pings'[j] = AutoPongs'[i]
        /\ \A i \in 1..Len(WireBy("echo")') :
              \E j \in 1..Len(closes') : EchoClose(closes'[j]) = WireBy("echo")'[i].frame ]_vars

\* C26 witness: flush() is in its loop, has written the Pong of the first Ping
\* and the read half has meanwhile returned a second Ping, not yet answered
C26_Witness ==
    /\ wpc = "flush"
    /\ Len(pings) = 2
    /\ AutoPongs = <<pings[1]>>
    /\ QueuedPongs = <<pings[2]>>

\* this step writes a frame the application sent
WritesUserFrame ==
    /\ Len(wire') = Len(wire) + 1
    /\ wire'[Len(wire')].by = "user"

\* C27: send() and close() on the write half first drain the channel.  The
\* frame of the application is written only by the step that found the
\* channel empty and the half not closed (sent_closed and shutdown false at
\* that moment); until then every SendPongFrame event the call takes has its
\* Pong written, or the call ends with that write's error and the
\* application's frame is not written; and WebSocketClosed is returned only
\* once the channel has been found empty.
C27_SendDrainsFirst ==
    [][ /\ WritesUserFrame =>
              /\ wpc = "flush" /\ wcall.op \in {"send", "close"}
              /\ events = <<>>
              /\ ~sent_closed /\ ~shutdown
              /\ wire' = Append(wire, [frame |-> Unwrap(wcall.arg), by |-> "user"])
              /\ wpc' = "idle" /\ wret'.res = "Ok"
        /\ (TakesEvent /\ wcall.op \in {"send", "close"}
               /\ Head(events).kind = "SendPongFrame") =>
              \/ wire' = Append(wire, [frame |-> Head(events).frame, by |-> "pong"])
                    /\ wpc' = "flush"
              \/ wire' = wire /\ wpc' = "idle" /\ wret'.res # "Ok"
        /\ (SendReturns /\ wret'.res = "WebSocketClosedError") =>
              (events = <<>> /\ (sent_closed \/ shutdown)) ]_vars

\* C27 witness: a single send() found the event of a received Ping in the
\* channel, wrote the Pong and then the application's Text frame
C27_Witness ==
    /\ ncalls = 1
    /\ wpc = "idle"
    /\ wret.op = "send" /\ wret.res = "Ok"
    /\ pings = <<Some(<<171, 205>>)>>
    /\ wire = <<[frame |-> Pong(Some(<<171, 205>>)), by |-> "pong"],
                [frame |-> Text(<<97>>, FALSE, TRUE), by |-> "user"]>>

\* this step is a receive() of the read half that returns a Close frame
ReceivesClose ==
    /\ nrecv' = nrecv + 1
    /\ rret'.op = "receive"
    /\ rret'.res = "Ok"
    /\ Unwrap(rret'.frame).type = "Close"

\* C28: when receive() returns a Close frame that arrived with the payload
\* (code, reason), the frame returned carries that code and that reason and
\* the one event enqueued is SendCloseFrameAndShutdown(Close(code, ""));
\* when the Close arrived without payload, the frame returned and the Close
\* of the event have no payload.
C28_CloseEchoEmptyReason ==
    [][ ReceivesClose =>
          LET payload == WirePayload(rret'.input)
              code == payload[1] * 256 + payload[2]
              reason == SubSeq(payload, 3, Len(payload))
          IN  IF payload = <<>>
              THEN /\ rret'.frame = Some(Close(None))
                   /\ events' = Append(events, SendCloseFrameAndShutdown(Close(None)))
              ELSE /\ rret'.frame = Some(Close(Some(<<code, reason>>)))
                   /\ events' = Append(events,
                          SendCloseFrameAndShutdown(Close(Some(<<code, <<>>>>)))) ]_vars

\* C28 witness: receive() returned Close(1000, "bye") and the channel holds
\* the event with Close(1000, "")
C28_Witness ==
    /\ rret.op = "receive"
    /\ rret.frame = Some(Close(Some(<<1000, <<98, 121, 101>>>>)))
    /\ events = <<SendCloseFrameAndShutdown(Close(Some(<<1000, <<>>>>)))>>

\* this step is a call of the read half's method op
ReadCall(op) == nrecv' = nrecv + 1 /\ rret'.op = op

\* C29: receive_without_handling() leaves the channel as it is whatever it
\* decodes.  receive() leaves it as it is when it returns a Text, Binary or
\* Pong frame or an error, and adds exactly one event at its end when it
\* returns a Ping (SendPongFrame with the Ping's payload) or a Close
\* (SendCloseFrameAndShutdown).
C29_EventsOnlyFromReceive ==
    [][ /\ ReadCall("receive_without_handling") => events' = events
        /\ ReadCall("receive") =>
              IF rret'.res = "Ok" /\ Unwrap(rret'.frame).type \in {"Ping", "Close"}
              THEN /\ Len(events') = Len(events) + 1
                   /\ SubSeq(events', 1, Len(events)) = events
                   /\ events'[Len(events')].kind =
                         (IF Unwrap(rret'.frame).type = "Ping"
                          THEN "SendPongFrame" ELSE "SendCloseFrameAndShutdown")
                   /\ Unwrap(rret'.frame).type = "Ping" =>
                         events'[Len(events')].frame = Pong(Unwrap(rret'.frame).payload)
              ELSE events' = events ]_vars

\* C29 witness: receive() returned a Ping and then receive_without_handling()
\* returned a Close: the channel holds the one event of the Ping
C29_Witness ==
    /\ nrecv = 2
    /\ Len(pings) = 1
    /\ rret.op = "receive_without_handling"
    /\ rret.res = "Ok"
    /\ Unwrap(rret.frame).type = "Close"
    /\ events = <<SendPongFrame(Pong(pings[1]))>>

\* this step is a call of receive() or receive_without_handling()
ReadReturns == nrecv' = nrecv + 1 /\ rret'.op \in {"receive", "receive_without_handling"}

\* the frame the last call of the read half returned has one of the types
Returned(types) == rret.res = "Ok" /\ IsSome(rret.frame) /\ Unwrap(rret.frame).type \in types

\* C30: the read half's context is Control when it is constructed; a call
\* that returns a Text or Binary frame (continuation or not) sets it to
\* that type; a call that returns a Close, Ping or Pong frame, or an error,
\* leaves it as it is.  So the context is the type of the last Text or
\* Binary frame returned, and a continuation frame that arrives after
\* control frames is decoded as it would have been before them: as a frame of
\* that type.
C30_ContextIsLastDataType ==
    [][ /\ (nrecv = 0 /\ rret.op = "none") => last_frame_type = "Control"
        /\ ReadReturns =>
              /\ Returned({"Text", "Binary"})' => last_frame_type' = Unwrap(rret'.frame).type
              /\ ~Returned({"Text", "Binary"})' => last_frame_type' = last_frame_type
              /\ Returned({"Close", "Ping", "Pong"})' =>
                    \A c \in DecodeWire :
                        WireOpcode(c) = 0 =>
                            read_from_websocket(c, last_frame_type')
                                = read_from_websocket(c, last_frame_type)
              /\ (WireOpcode(rret'.input) = 0 /\ rret'.res = "Ok") =>
                    /\ last_frame_type \in {"Text", "Binary"}
                    /\ Unwrap(rret'.frame).type = last_frame_type
                    /\ Unwrap(rret'.frame).continuation ]_vars

\* C30 witness: after a Binary frame without the fin bit, receive() returned
\* a Ping and then the final continuation frame, decoded as Binary
C30_Witness ==
    /\ nrecv = 2
    /\ Len(pings) = 1
    /\ last_frame_type = "Binary"
    /\ rret.input = PeerFrame(1, 0, 0, 7, <<255>>)
    /\ rret.frame = Some(Binary(<<255>>, TRUE, TRUE))

(***************************************************************************)
(* C31: close(payload) on the write half is send(Close{payload}).  When    *)
(* the call completes after its flush, the write half is in the state and  *)
(* returns the result that send() of the frame Close{payload} gives from   *)
(* the same state: on success exactly one frame, the Close with the        *)
(* payload, has been appended to the stream, and on failure none; the      *)
(* call leaves the stream open for writes and the flags as they were.  The *)
(* stream is half-closed for writes only by a step of shutdown() or by     *)
(* the flush of a SendCloseFrameAndShutdown event.                         *)
(***************************************************************************)
CloseCompletes ==
    /\ wpc = "flush" /\ wcall.op = "close" /\ events = <<>>
    /\ wpc' = "idle"

C32_ChannelErrorOnlyForPingClose ==
    [][ReadCall("receive") =>
          LET d == read_from_websocket(rret'.input, last_frame_type) IN
          d.res = "Ok" =>
             IF wpc = "dropped" /\ Unwrap(d.frame).type \in {"Ping", "Close"}
             THEN /\ rret'.res = "ChannelError"
                  /\ rret'.frame = None
                  /\ events' = events
             ELSE /\ rret'.res = "Ok"
                  /\ rret'.frame = d.frame
                  /\ Unwrap(d.frame).type \in {"Text", "Binary", "Pong", "Ping", "Close"}]_vars

\* the write half has been dropped; a first receive() returned a Text frame
\* and the second one failed with ChannelError on a Ping
C32_Witness ==
    /\ wpc = "dropped"
    /\ nrecv = 2
    /\ last_frame_type = "Text"
    /\ rret.op = "receive" /\ rret.res = "ChannelError"
    /\ rret.input = PeerFrame(1, 9, 0, 7, <<97>>)

(***************************************************************************)
(* C33: the first byte of every encoded frame.  Its low four bits are the  *)
(* opcode: 1 for Text and 2 for Binary with continuation = false, 0 for    *)
(* Text and Binary with continuation = true, 8 for Close, 9 for Ping and   *)
(* 10 for Pong.  Its top bit is the fin flag of a Text or Binary frame and *)
(* 1 for Close, Ping and Pong.  The three bits in between are 0.           *)
(***************************************************************************)
C33_FirstByte ==
    (IsSome(output) /\ Applied("raw_frame")) =>
        LET frame == Unwrap(input).frame
            first == Unwrap(output)[1]
            data == frame.type \in {"Text", "Binary"}
        IN  /\ first % 16 =
                  (IF data /\ frame.continuation THEN 0
                   ELSE IF frame.type = "Text" THEN 1
                   ELSE IF frame.type = "Binary" THEN 2
                   ELSE IF frame.type = "Close" THEN 8
                   ELSE IF frame.type = "Ping" THEN 9
                   ELSE 10)
            /\ (first \div 128 = 1) <=> (IF data THEN frame.fin ELSE TRUE)
            /\ (first \div 16) % 8 = 0

\* a Text continuation frame without fin has been encoded: its first byte is 0
C33_Witness ==
    /\ IsSome(output) /\ Applied("raw_frame")
    /\ Unwrap(input).frame = Text(<<97>>, TRUE, FALSE)
    /\ Unwrap(output)[1] = 0

(***************************************************************************)
(* C34 (as claimed): an unmasked frame with a reserved opcode (3 to 7, 11  *)
(* to 15) fails with InvalidFrame.  A Close frame with no payload decodes  *)
(* to Close without payload, with a one-byte payload it fails with         *)
(* InvalidFrame, and with a payload of two bytes or more it decodes to     *)
(* the big-endian status code of the first two bytes and the remaining     *)
(* bytes as reason.  A Ping or Pong decodes, its payload absent exactly    *)
(* when its length is 0.                                                   *)
(***************************************************************************)
Reserved(op) == (op >= 3 /\ op <= 7) \/ (op >= 11 /\ op <= 15)

DecodedClose(b) ==
    Close(Some(<<WirePayload(b)[1] * 256 + WirePayload(b)[2],
                 SubSeq(WirePayload(b), 3, Len(WirePayload(b)))>>))

PingPongDecoded(b) ==
    /\ rret'.res = "Ok"
    /\ Unwrap(rret'.frame).type = (IF WireOpcode(b) = 9 THEN "Ping" ELSE "Pong")
    /\ Unwrap(rret'.frame).payload =
          (IF Len(WirePayload(b)) = 0 THEN None ELSE Some(WirePayload(b)))

C34_DecodeDispatch ==
    [][ \A b \in DispatchWire :
          Decodes(b) =>
            /\ Reserved(WireOpcode(b)) =>
                  rret'.res = "InvalidFrameError" /\ rret'.frame = None
            /\ WireOpcode(b) = 8 =>
                  IF Len(WirePayload(b)) = 0 THEN rret'.res = "Ok" /\ rret'.frame = Some(Close(None))
                  ELSE IF Len(WirePayload(b)) = 1 THEN rret'.res = "InvalidFrameError"
                  ELSE rret'.res = "Ok" /\ rret'.frame = Some(DecodedClose(b))
            /\ WireOpcode(b) \in {9, 10} => PingPongDecoded(b) ]_vars

(***************************************************************************)
(* C34 (amended): as above, but a Close frame with a payload of two bytes  *)
(* or more decodes to (status code, reason) only when the bytes after the  *)
(* status code are valid UTF-8; when they are not, it fails with           *)
(* InvalidFrame.                                                           *)
(***************************************************************************)
C34_DecodeDispatchIfUtf8 ==
    [][ \A b \in DispatchWire :
          Decodes(b) =>
            /\ Reserved(WireOpcode(b)) =>
                  rret'.res = "InvalidFrameError" /\ rret'.frame = None
            /\ WireOpcode(b) = 8 =>
                  IF Len(WirePayload(b)) = 0 THEN rret'.res = "Ok" /\ rret'.frame = Some(Close(None))
                  ELSE IF Len(WirePayload(b)) = 1
                  THEN rret'.res = "InvalidFrameError" /\ rret'.frame = None
                  ELSE IF from_utf8_ok(SubSeq(WirePayload(b), 3, Len(WirePayload(b))))
                  THEN rret'.res = "Ok" /\ rret'.frame = Some(DecodedClose(b))
                  ELSE rret'.res = "InvalidFrameError" /\ rret'.frame = None
            /\ WireOpcode(b) \in {9, 10} => PingPongDecoded(b) ]_vars

\* a Close frame whose payload is the two bytes 03 E8 was decoded as
\* Close(1000, "")
C34_Witness ==
    /\ rret.op = "receive_without_handling"
    /\ rret.input = PeerFrame(1, 8, 0, 7, <<3, 232>>)
    /\ rret.res = "Ok"
    /\ rret.frame = Some(Close(Some(<<1000, <<>>>>)))

(***************************************************************************)
(* C35: the request's header lines are, in this order: Host, Upgrade,      *)
(* Connection, Sec-WebSocket-Key, Sec-WebSocket-Version (names compared    *)
(* without regard to case); then Sec-WebSocket-Protocol, present exactly   *)
(* when a subprotocol is left in the builder's list, its value the         *)
(* subprotocols joined by ", " in insertion order; then the additional     *)
(* headers in insertion order.  The two lists are the entries added, in    *)
(* the order of their add calls, without those whose name was given to a   *)
(* later remove call.                                                      *)
(***************************************************************************)
\* the calls of the log named add whose name no later call named remove gives
Surviving(log, add, remove) ==
    LET kept[i \in 0..Len(log)] ==
            IF i = 0 THEN <<>>
            ELSE IF /\ log[i].op = add
                    /\ ~\E j \in (i + 1)..Len(log) :
                          log[j].op = remove /\ log[j].name = log[i].name
                 THEN Append(kept[i - 1], log[i])
                 ELSE kept[i - 1]
    IN  kept[Len(log)]

RECURSIVE Joined(_)
Joined(names) ==
    IF Len(names) = 1 THEN names[1]
    ELSE Joined(SubSeq(names, 1, Len(names) - 1)) \o <<44, 32>> \o names[Len(names)]

FixedHeaderNames ==
    << <<104, 111, 115, 116>>,
       <<117, 112, 103, 114, 97, 100, 101>>,
       <<99, 111, 110, 110, 101, 99, 116, 105, 111, 110>>,
       <<115, 101, 99, 45, 119, 101, 98, 115, 111, 99, 107, 101, 116, 45, 107, 101, 121>>,
       <<115, 101, 99, 45, 119, 101, 98, 115, 111, 99, 107, 101, 116, 45, 118, 101, 114, 115, 105, 111, 110>> >>

C35_RequestHeaders ==
    (IsSome(input) /\ IsSome(output) /\ "log" \in DOMAIN Unwrap(input)) =>
        LET log == Unwrap(input).log
            request_line == read_line(Unwrap(output))
            parsed == read_headers(request_line.rest, <<>>)
            sent == parsed.headers
            subs == Surviving(log, "add_subprotocol", "remove_subprotocol")
            extra == Surviving(log, "add_header", "remove_header")
            fixed == IF subs = <<>> THEN 5 ELSE 6
        IN  /\ parsed.rest = <<>>
            /\ Len(sent) = fixed + Len(extra)
            /\ [i \in 1..5 |-> Lower(sent[i][1])] = FixedHeaderNames
            /\ subs # <<>> =>
                  /\ Lower(sent[6][1]) = str_sec_websocket_protocol
                  /\ sent[6][2] = Joined([i \in 1..Len(subs) |-> subs[i].name])
            /\ SubSeq(sent, fixed + 1, Len(sent)) =
                  [i \in 1..Len(extra) |-> <<extra[i].name, extra[i].value>>]

\* add_header("a", "1"), add_subprotocol("chat"), remove_header("a"),
\* add_header("A", "2"), then the request: it has the protocol header and
\* the one additional header A: 2
C35_Witness ==
    /\ IsSome(input) /\ IsSome(output) /\ "log" \in DOMAIN Unwrap(input)
    /\ [i \in 1..Len(Unwrap(input).log) |-> Unwrap(input).log[i].op] =
          <<"add_header", "add_subprotocol", "remove_header", "add_header">>
    /\ Unwrap(input).builder.additional_handshake_headers = << <<<<65>>, <<50>>>> >>
    /\ Unwrap(input).builder.subprotocols = <<str_chat>>
    /\ Len(read_headers(read_line(Unwrap(output)).rest, <<>>).headers) = 7

(***************************************************************************)
(* C36 (as claimed): when a line before the blank line of the response is  *)
(* not of the form field: value, check_response fails with                 *)
(* InvalidHandshake; and a 101 response that check_response accepts leaves *)
(* exactly the bytes after its blank line unread.                          *)
(***************************************************************************)
IsHeaderLine(line) == \E c \in 2..Len(line) : line[c] = 58

C36_MalformedHeaderRejected ==
    (IsSome(input) /\ IsSome(output) /\ "lines" \in DOMAIN Unwrap(input)) =>
        LET lines == Unwrap(input).lines
            r == Unwrap(output)
        IN  /\ (\E i \in 1..Len(lines) : ~IsHeaderLine(lines[i])) =>
                  r.res = "InvalidHandshakeError"
            /\ (Unwrap(input).status_code = str_101 /\ r.res = "Ok") =>
                  r.rest = Unwrap(input).body

(***************************************************************************)
(* C37 (as claimed): at most one of the frames the client has written to   *)
(* the stream is a Close frame, whatever calls of close(), send(),         *)
(* receive(), flush() and shutdown() have been made.                       *)
(***************************************************************************)
C37_AtMostOneClose ==
    Cardinality({ i \in 1..Len(wire) : wire[i].frame.type = "Close" }) <= 1

(***************************************************************************)
(* C38 (as claimed): the bytes written for a frame f that send() accepts,  *)
(* once the payload is unmasked with the key they carry and the MASK bit   *)
(* is cleared, decode to f itself (variant, payload, continuation and      *)
(* fin), the decoder's context being f's type when f is a continuation;    *)
(* also when f is a Ping or Pong whose payload is present and empty.       *)
(***************************************************************************)
\* the frame bytes r of a masked frame as an unmasked frame
Unmasked(r) ==
    LET len == IF r[2] - 128 <= 125 THEN 1 ELSE IF r[2] - 128 = 126 THEN 3 ELSE 9
        K == SubSeq(r, len + 2, len + 5)
        written == SubSeq(r, len + 6, Len(r))
    IN  <<r[1], r[2] - 128>> \o SubSeq(r, 3, len + 1)
            \o [i \in 1..Len(written) |-> BitXor(written[i], K[((i - 1) % 4) + 1])]

Accepted(f) == ~(is_control(f) /\ Len(Materialize(f)) > ControlMax)

DecodedBack(f, r) ==
    read_from_websocket(Unmasked(r),
                        IF f.type \in {"Text", "Binary"} /\ f.continuation
                        THEN f.type ELSE "Control")

C38_RoundTrip ==
    (Applied("raw_frame") /\ Accepted(Unwrap(input).frame)) =>
        DecodedBack(Unwrap(input).frame, Unwrap(output)) = Ok(Unwrap(input).frame)

(***************************************************************************)
(* C38 (amended): as above, except that a Ping or Pong whose payload is    *)
(* present and empty is written as a frame of length 0 and decodes to the  *)
(* Ping or Pong without payload.                                           *)
(***************************************************************************)
C38_RoundTripButEmptyPayload ==
    (Applied("raw_frame") /\ Accepted(Unwrap(input).frame)) =>
        LET f == Unwrap(input).frame IN
        DecodedBack(f, Unwrap(output)) =
            Ok(IF f.type \in {"Ping", "Pong"} /\ f.payload = Some(<<>>)
               THEN [f EXCEPT !.payload = None]
               ELSE f)

\* the frame Close(1000, "bye") was written with the key 01 02 04 08 and
\* decodes back to itself
C38_Witness ==
    /\ Applied("raw_frame")
    /\ Unwrap(input).frame = Close(Some(<<1000, <<98, 121, 101>>>>))
    /\ Unwrap(input).masking_key = <<1, 2, 4, 8>>
    /\ Unwrap(output) = <<136, 133, 1, 2, 4, 8, 2, 234, 102, 113, 100>>
    /\ DecodedBack(Unwrap(input).frame, Unwrap(output)) = Ok(Unwrap(input).frame)

(***************************************************************************)
(* C39: when the decoding of the frame read by receive() or by             *)
(* receive_without_handling() fails (with ReceivedMaskedFrame,             *)
(* InvalidFrame or a read error), the call returns that error and no       *)
(* frame, the continuation context is what it was before the call and no   *)
(* event has been added to the channel.                                    *)
(***************************************************************************)
C39_FailedDecodeChangesNothing ==
    [][(ReadCall("receive") \/ ReadCall("receive_without_handling")) =>
          LET d == read_from_websocket(rret'.input, last_frame_type) IN
          d.res # "Ok" =>
             /\ d.res \in {"ReceivedMaskedFrameError", "InvalidFrameError", "ReadError"}
             /\ rret'.res = d.res
             /\ rret'.frame = None
             /\ last_frame_type' = last_frame_type
             /\ events' = events
             /\ pings' = pings /\ closes' = closes]_vars

\* after a Ping was received (its Pong event is queued) and the context is
\* still Control, receive() failed on a frame cut short by the end of the
\* stream
C39_Witness ==
    /\ nrecv = 2
    /\ events = <<SendPongFrame(Pong(Some(<<171, 205>>)))>>
    /\ rret.op = "receive" /\ rret.res = "ReadError" /\ rret.frame = None
    /\ rret.input = <<129, 5, 97>>

(***************************************************************************)
(* C40 (as claimed): every call of flush() returns, also while the read    *)
(* half keeps adding events to the channel for the Pings it receives.      *)
(***************************************************************************)
C40_FlushTerminates == (wpc = "flush") ~> (wpc = "idle")

(***************************************************************************)
(* C40 (amended): a call of flush() returns only when it finds the channel *)
(* empty or when sending for an event has failed, and in the second case   *)
(* the events behind that event are still in the channel, in their order.  *)
(* Every call of flush() returns if from some point on the read half adds  *)
(* no event to the channel; while the read half keeps adding events the    *)
(* call may go on for ever.                                                *)
(***************************************************************************)
Enqueues == Len(events') > Len(events)

FlushReturns == wpc = "flush" /\ wpc' = "idle"

C40_FlushTerminatesUnlessFlooded ==
    /\ [][FlushReturns =>
            \/ events = <<>> /\ events' = <<>> /\ wret'.res = "Ok"
            \/ events # <<>> /\ events' = Tail(events) /\ wret'.res # "Ok"]_vars
    /\ (<>[][~Enqueues]_vars) => ((wpc = "flush") ~> (wpc = "idle"))

\* flush() has failed on the first of two events (the stream had been shut
\* down for writes): the second event is still in the channel
C40_Witness ==
    /\ wpc = "idle"
    /\ wret.op = "flush" /\ wret.res = "WriteError"
    /\ events = <<SendPongFrame(Pong(Some(<<7>>)))>>

====
